---- MODULE Spec2Model ----
(***************************************************************************)
(* Model of ceto's energy / fuel estimation chain (ceto/imo.py), of the    *)
(* alternative-energy-system solver (ceto/energy_systems.py) and of the    *)
(* vessel data guessed from AIS messages (ceto/ais_adapter.py).            *)
(*                                                                         *)
(* Numbers are fixed point integers (floor rounding):                      *)
(*   power     0.1 kW   (dkW)        time    0.01 h  (ch)                  *)
(*   energy    Wh  = dkW * ch        load    1e-4                          *)
(*   sfc       0.1 g/kWh             mass    g                             *)
(*   draft     mm                    speed   kn, distance nm               *)
(*   length    dm   beam   cm        design speed   0.1 kn                 *)
(*   change of draft   1e-3 mm                                             *)
(* Where the code compares floats whose decimal values are equal or may    *)
(* be (the dims and the draft of an AIS message, the draft tolerance of    *)
(* the solver), the comparison is made on the floats themselves (F64...);  *)
(* the engine load is compared with 0.07 and 1.5 in exact arithmetic.      *)
(* A Python value that may be absent from a dict is modelled by a record   *)
(* whose DOMAIN lacks the key.  A call's outcome is a record               *)
(*   [ok |-> TRUE, val |-> v]  or  [ok |-> FALSE, err |-> "<exception>"].  *)
(***************************************************************************)
EXTENDS Integers, Sequences, FiniteSets, TLC

VARIABLES
    vessel,     \* the caller's vessel_data dict
    vp,         \* the caller's voyage_profile dict (leg lists held by reference)
    heap,       \* list objects: id -> sequence of legs <<distance, speed, draft>>
    refs,       \* the caller's reference_values dict (set of keys present)
    vp0,        \* voyage_profile as it was when the caller built it
    heap0,      \* the caller's list objects as they were when built
    pc,         \* position of the caller / solver
    frame,      \* locals of the running _iterate_energy_system call
    gas,        \* result of the hydrogen solve inside suggest_alternative_energy_systems
    entry,      \* which function the caller invoked
    outcome,    \* outcome of the call in progress / last finished call
    evaluated,  \* sub-models evaluated by the call in progress / last finished call
    history,    \* outcomes of the finished solver calls, oldest first
    call        \* last direct call of a pure function: input and outcome

vars == <<vessel, vp, heap, refs, vp0, heap0, pc, frame, gas, entry, outcome,
          evaluated, history, call>>

----------------------------------------------------------------------------
(* Outcomes *)

Ok(v) == [ok |-> TRUE, val |-> v]
Err(e) == [ok |-> FALSE, err |-> e]

\* None (vessel_data["size"] is None)
NULL == -1

\* floor(x * a / b) for x >= 0 without forming x * a
MulDiv(x, a, b) == (x \div b) * a + ((x % b) * a) \div b

\* quotient and remainder of x * a by b (x, a >= 0, b > 0, 16 * b + 15 * x < 2^31)
\* without forming x * a: x * a = 16 * (x * (a \div 16)) + (a % 16) * x
RECURSIVE QuoRem(_, _, _)
QuoRem(x, a, b) ==
    IF a = 0 THEN [q |-> 0, r |-> 0]
    ELSE LET step(h, s) == [q |-> 16 * h.q + s \div b, r |-> s % b]
             shift(h) == step(h, 16 * h.r + (a % 16) * x)
         IN shift(QuoRem(x, a \div 16, b))

\* floor(x * a / b), exact
MulDivExact(x, a, b) == QuoRem(x, a, b).q

\* Python float division truncates nothing; the fixed point result is rounded
\* towards zero for both signs.
SDiv(a, b) == IF a >= 0 THEN a \div b ELSE -((-a) \div b)

Abs(x) == IF x >= 0 THEN x ELSE -x

RECURSIVE SumSeq(_)
SumSeq(s) == IF s = <<>> THEN 0 ELSE Head(s) + SumSeq(Tail(s))

RECURSIVE MaxSeq(_)
\* max() of a non-empty list
MaxSeq(s) == IF Len(s) = 1 THEN s[1]
             ELSE LET m == MaxSeq(Tail(s)) IN IF s[1] >= m THEN s[1] ELSE m

\* first entry of a sequence of check results that is not "ok"
FirstFailure(checks) ==
    LET bad == {i \in 1..Len(checks) : checks[i] # "ok"}
    IN IF bad = {} THEN "ok"
       ELSE checks[CHOOSE i \in bad : \A j \in bad : i <= j]

\* raise the failure of a group of checks, or go on with x
Check(failure, x) == IF failure # "ok" THEN Err(failure) ELSE x

----------------------------------------------------------------------------
(* Natural numbers of any size: a sequence of digits in base 2^15, the     *)
(* least significant first and the last one not 0; <<>> is 0.              *)

BIG_BASE == 2^15

RECURSIVE BigTrim(_)
BigTrim(a) ==
    IF a = <<>> \/ a[Len(a)] # 0 THEN a ELSE BigTrim(SubSeq(a, 1, Len(a) - 1))

RECURSIVE BigFromInt(_)
BigFromInt(n) == IF n = 0 THEN <<>> ELSE <<n % BIG_BASE>> \o BigFromInt(n \div BIG_BASE)

RECURSIVE BigToInt(_)
BigToInt(a) == IF a = <<>> THEN 0 ELSE a[1] + BIG_BASE * BigToInt(Tail(a))

BigDigit(a, i) == IF i <= Len(a) THEN a[i] ELSE 0

RECURSIVE BigAddFrom(_, _, _, _)
BigAddFrom(a, b, i, carry) ==
    IF i > Len(a) /\ i > Len(b) THEN (IF carry = 0 THEN <<>> ELSE <<carry>>)
    ELSE LET digit(s) == <<s % BIG_BASE>> \o BigAddFrom(a, b, i + 1, s \div BIG_BASE)
         IN digit(BigDigit(a, i) + BigDigit(b, i) + carry)

BigAdd(a, b) == BigAddFrom(a, b, 1, 0)

\* a - 1 for a > 0
RECURSIVE BigPred(_)
BigPred(a) ==
    IF a[1] > 0 THEN BigTrim(<<a[1] - 1>> \o Tail(a))
    ELSE <<BIG_BASE - 1>> \o BigPred(Tail(a))

\* a * k + carry for 0 < k < BIG_BASE and 0 <= carry < BIG_BASE
RECURSIVE BigMulSmall(_, _, _)
BigMulSmall(a, k, carry) ==
    IF a = <<>> THEN (IF carry = 0 THEN <<>> ELSE <<carry>>)
    ELSE LET digit(p) == <<p % BIG_BASE>> \o BigMulSmall(Tail(a), k, p \div BIG_BASE)
         IN digit(a[1] * k + carry)

RECURSIVE BigMul(_, _)
BigMul(a, b) ==
    IF a = <<>> \/ b = <<>> THEN <<>>
    ELSE IF b[1] = 0 THEN <<0>> \o BigMul(a, Tail(b))
    ELSE IF Len(b) = 1 THEN BigMulSmall(a, b[1], 0)
    ELSE BigAdd(BigMulSmall(a, b[1], 0), <<0>> \o BigMul(a, Tail(b)))

\* -1, 0, 1 as a < b, a = b, a > b, for numbers of the same length, from digit i down
RECURSIVE BigCmpFrom(_, _, _)
BigCmpFrom(a, b, i) ==
    IF i = 0 THEN 0
    ELSE IF a[i] < b[i] THEN -1
    ELSE IF a[i] > b[i] THEN 1
    ELSE BigCmpFrom(a, b, i - 1)

BigCmp(a, b) ==
    IF Len(a) < Len(b) THEN -1
    ELSE IF Len(a) > Len(b) THEN 1
    ELSE BigCmpFrom(a, b, Len(a))

\* a * 2^n
BigShl(a, n) ==
    IF a = <<>> THEN <<>>
    ELSE [i \in 1..(n \div 15) |-> 0] \o BigMulSmall(a, 2^(n % 15), 0)

\* quotient (its leading digits may be 0) and remainder of a by d, 0 < d < 2^16
RECURSIVE BigDivSmall(_, _)
BigDivSmall(a, d) ==
    IF a = <<>> THEN [q |-> <<>>, r |-> 0]
    ELSE LET digit(h, t) == [q |-> <<t \div d>> \o h.q, r |-> t % d]
             step(h) == digit(h, h.r * BIG_BASE + a[1])
         IN step(BigDivSmall(Tail(a), d))

\* floor(a / 2^n)
BigShr(a, n) ==
    IF n \div 15 >= Len(a) THEN <<>>
    ELSE BigTrim(BigDivSmall(SubSeq(a, n \div 15 + 1, Len(a)), 2^(n % 15)).q)

\* number of binary digits
BigBitLen(a) ==
    IF a = <<>> THEN 0
    ELSE 15 * (Len(a) - 1)
           + (CHOOSE k \in 1..15 : 2^(k - 1) <= a[Len(a)] /\ a[Len(a)] < 2^k)

BigIsOdd(a) == a # <<>> /\ a[1] % 2 = 1

----------------------------------------------------------------------------
(* Python floats where a comparison depends on their rounding: a float is  *)
(* the record [m, e] of value m * 2^e with 2^52 <= m < 2^53, or m = 0.     *)
(* Every operation rounds its exact result to the nearest float, a tie to  *)
(* the even m.                                                             *)

F64_ZERO == [m |-> <<>>, e |-> 0]

\* n * 2^e rounded to 53 binary digits; above says that the rounded value lies
\* strictly above n * 2^e (n has 55 digits or more then)
F64Round(n, e, above) ==
    IF n = <<>> THEN F64_ZERO
    ELSE LET fit(r, t) ==
                 IF BigBitLen(r) > 53 THEN [m |-> BigShr(r, 1), e |-> e + t + 1]
                 ELSE [m |-> r, e |-> e + t]
             choose(q, t, c) ==
                 IF c > 0 \/ (c = 0 /\ (above \/ BigIsOdd(q)))
                 THEN fit(BigAdd(q, <<1>>), t) ELSE fit(q, t)
             \* n against (2 q + 1) * 2^(t - 1), the middle between q and q + 1
             middle(q, t) ==
                 choose(q, t, BigCmp(n, BigShl(BigAdd(BigShl(q, 1), <<1>>), t - 1)))
             cut(t) == IF t <= 0 THEN [m |-> BigShl(n, -t), e |-> e + t]
                       ELSE middle(BigShr(n, t), t)
         IN cut(BigBitLen(n) - 53)

\* the float of the decimal n / (d1 * d2), for n >= 0 and 0 < d1, d2 < 2^16
F64Ratio(n, d1, d2) ==
    LET second(h1, h2) == F64Round(BigTrim(h2.q), -90, h1.r # 0 \/ h2.r # 0)
        first(h1) == second(h1, BigDivSmall(BigTrim(h1.q), d2))
    IN first(BigDivSmall(BigShl(BigFromInt(n), 90), d1))

\* the float of the decimal literal n / d
Decimal(n, d) == F64Ratio(n, d, 1)

\* -1, 0, 1 as x < y, x = y, x > y, for two values m * 2^e
F64Cmp(x, y) ==
    IF x.e >= y.e THEN BigCmp(BigShl(x.m, x.e - y.e), y.m)
    ELSE BigCmp(x.m, BigShl(y.m, y.e - x.e))

\* x + y
F64Add(x, y) ==
    IF x.m = <<>> THEN y
    ELSE IF y.m = <<>> THEN x
    ELSE IF x.e >= y.e THEN F64Round(BigAdd(BigShl(x.m, x.e - y.e), y.m), y.e, FALSE)
    ELSE F64Round(BigAdd(x.m, BigShl(y.m, y.e - x.e)), x.e, FALSE)

\* x * y
F64Mul(x, y) == F64Round(BigMul(x.m, y.m), x.e + y.e, FALSE)

\* x / y < t for y > 0 and t > 0: the quotient lies below the middle between t
\* and the float before it (or on it, when the tie goes to that float)
F64QuotientBelow(x, y, t) ==
    LET before == IF BigBitLen(BigPred(t.m)) < 53
                  THEN [m |-> BigPred(BigShl(t.m, 2)), e |-> t.e - 2]
                  ELSE [m |-> BigPred(BigShl(t.m, 1)), e |-> t.e - 1]
        below(c) == c < 0 \/ (c = 0 /\ BigIsOdd(t.m))
    IN below(F64Cmp(x, [m |-> BigMul(before.m, y.m), e |-> before.e + y.e]))

\* x / y > t for y > 0 and t > 0: the quotient lies above the middle between t
\* and the float after it (or on it, when the tie goes to that float)
F64QuotientAbove(x, y, t) ==
    LET above(c) == c > 0 \/ (c = 0 /\ BigIsOdd(t.m))
    IN above(F64Cmp(x, [m |-> BigMul(BigAdd(BigShl(t.m, 1), <<1>>), y.m),
                        e |-> t.e - 1 + y.e]))

\* the integer nearest to x * scale, for 0 < scale < 2^15
F64ToFixed(x, scale) ==
    IF x.m = <<>> THEN 0
    ELSE IF x.e >= 0 THEN BigToInt(BigShl(BigMulSmall(x.m, scale, 0), x.e))
    ELSE BigToInt(BigShr(BigAdd(BigMulSmall(x.m, scale, 0), BigShl(<<1>>, -x.e - 1)),
                         -x.e))

----------------------------------------------------------------------------
(* ceto/utils.py *)

verify_range(value, lower_limit, upper_limit) ==
    IF value < lower_limit \/ value > upper_limit THEN "ValueError" ELSE "ok"

verify_set(value, set_) ==
    IF value \notin set_ THEN "ValueError" ELSE "ok"

verify_key_value_range(key, dict_, lower_limit, upper_limit) ==
    IF key \notin DOMAIN dict_ THEN "KeyError"
    ELSE IF dict_[key] < lower_limit \/ dict_[key] > upper_limit THEN "ValueError"
    ELSE "ok"

verify_key_value_set(key, dict_, set_) ==
    IF key \notin DOMAIN dict_ THEN "KeyError"
    ELSE IF dict_[key] \notin set_ THEN "ValueError"
    ELSE "ok"

\* values carry their Python type in the field ty
verify_key_value_type(key, dict_, type_) ==
    IF key \notin DOMAIN dict_ THEN "KeyError"
    ELSE IF dict_[key].ty # type_ THEN "ValueError"
    ELSE "ok"

----------------------------------------------------------------------------
(* ceto/imo.py: closed sets and limits *)

VESSEL_TYPES ==
    {"bulk_carrier", "chemical_tanker", "container", "general_cargo",
     "liquified_gas_tanker", "oil_tanker", "other_liquids_tanker", "ferry",
     "cruise", "ropax", "refrigerated_cargo", "roro", "vehicle", "yacht",
     "miscellaneous-fishing", "service-tug", "offshore", "service-other",
     "miscellaneous-other"}

FUEL_TYPES == {"HFO", "MDO", "MeOH", "LNG"}

ENGINE_TYPES == {"SSD", "MSD", "HSD", "LNG-Otto-MS", "LBSI", "gas_turbine",
                 "steam_turbine"}

ENGINE_AGES == {"before_1983", "1984-2000", "after_2001"}

OPERATION_MODES == {"at_berth", "anchored", "manoeuvring", "at_sea"}

MAX_VESSEL_SPEED_KN == 50
\* 0.1 m, in mm
MIN_VESSEL_DRAFT == 100
\* 25 m, in mm
MAX_VESSEL_DRAFT_M == 25000
MIN_ENGINE_POWER_KW == 5
MAX_ENGINE_POWER_KW == 60000
MAX_VESSEL_SIZE == 500000
\* 24 * 365 h, in ch
MAX_HOURS == 876000

none_vessel_types ==
    {"yacht", "service-tug", "miscellaneous-fishing", "offshore",
     "service-other", "miscellaneous-other"}

\* the size branch of verify_vessel_data
verify_size(vessel_data) ==
    IF "size" \notin DOMAIN vessel_data THEN "KeyError"
    ELSE IF vessel_data["size"] # NULL
         THEN verify_key_value_range("size", vessel_data, 0, MAX_VESSEL_SIZE)
    ELSE IF "type" \notin DOMAIN vessel_data THEN "KeyError"
    ELSE IF vessel_data["type"] \notin none_vessel_types THEN "ValueError"
    ELSE "ok"

verify_vessel_data(vessel_data) ==
    FirstFailure(<<
        verify_key_value_range("design_speed", vessel_data, 0, MAX_VESSEL_SPEED_KN * 10),
        verify_key_value_range("design_draft", vessel_data, 0, MAX_VESSEL_DRAFT_M),
        verify_key_value_set("number_of_propulsion_engines", vessel_data, {1, 2}),
        verify_key_value_range("propulsion_engine_power", vessel_data,
                               MIN_ENGINE_POWER_KW, MAX_ENGINE_POWER_KW),
        verify_key_value_set("propulsion_engine_type", vessel_data, ENGINE_TYPES),
        verify_key_value_set("propulsion_engine_age", vessel_data, ENGINE_AGES),
        verify_key_value_set("propulsion_engine_fuel_type", vessel_data, FUEL_TYPES),
        verify_key_value_set("type", vessel_data, VESSEL_TYPES),
        verify_size(vessel_data) >>)

\* the range check of a time entry reads the float's value
verify_time(key, voyage_profile) ==
    FirstFailure(<<
        verify_key_value_type(key, voyage_profile, "float"),
        IF key \notin DOMAIN voyage_profile THEN "KeyError"
        ELSE verify_range(voyage_profile[key].v, 0, MAX_HOURS) >>)

verify_voyage_profile(voyage_profile) ==
    FirstFailure(<<
        verify_time("time_anchored", voyage_profile),
        verify_time("time_at_berth", voyage_profile),
        verify_key_value_type("legs_manoeuvring", voyage_profile, "list"),
        verify_key_value_type("legs_at_sea", voyage_profile, "list") >>)

----------------------------------------------------------------------------
(* ceto/imo.py: estimate_specific_fuel_consumption *)

\* Baseline SFC in g/kWh (Table 19)
sfc_baselines ==
    ("SSD" :> (("HFO" :> (("before_1983" :> 205) @@ ("1984-2000" :> 185) @@ ("after_2001" :> 175)))
            @@ ("MDO" :> (("before_1983" :> 190) @@ ("1984-2000" :> 175) @@ ("after_2001" :> 165)))
            @@ ("MeOH" :> ("after_2001" :> 350))))
    @@ ("MSD" :> (("HFO" :> (("before_1983" :> 215) @@ ("1984-2000" :> 195) @@ ("after_2001" :> 185)))
            @@ ("MDO" :> (("before_1983" :> 200) @@ ("1984-2000" :> 185) @@ ("after_2001" :> 175)))
            @@ ("MeOH" :> ("after_2001" :> 370))))
    @@ ("HSD" :> (("HFO" :> (("before_1983" :> 225) @@ ("1984-2000" :> 205) @@ ("after_2001" :> 195)))
            @@ ("MDO" :> (("before_1983" :> 210) @@ ("1984-2000" :> 190) @@ ("after_2001" :> 185)))))
    @@ ("LNG-Otto-MS" :> ("LNG" :> (("1984-2000" :> 173) @@ ("after_2001" :> 156))))
    @@ ("LBSI" :> ("LNG" :> (("1984-2000" :> 156) @@ ("after_2001" :> 156))))
    @@ ("gas_turbine" :> (("HFO" :> (("before_1983" :> 305) @@ ("1984-2000" :> 305) @@ ("after_2001" :> 305)))
            @@ ("MDO" :> (("before_1983" :> 300) @@ ("1984-2000" :> 300) @@ ("after_2001" :> 300)))
            @@ ("LNG" :> ("after_2001" :> 203))))
    @@ ("steam_turbine" :> (("HFO" :> (("before_1983" :> 340) @@ ("1984-2000" :> 340) @@ ("after_2001" :> 340)))
            @@ ("MDO" :> (("before_1983" :> 320) @@ ("1984-2000" :> 320) @@ ("after_2001" :> 320)))
            @@ ("LNG" :> (("before_1983" :> 285) @@ ("1984-2000" :> 285) @@ ("after_2001" :> 285)))))
    @@ ("steam_boiler" :> (("HFO" :> (("before_1983" :> 340) @@ ("1984-2000" :> 340) @@ ("after_2001" :> 340)))
            @@ ("MDO" :> (("before_1983" :> 320) @@ ("1984-2000" :> 320) @@ ("after_2001" :> 320)))
            @@ ("LNG" :> (("before_1983" :> 285) @@ ("1984-2000" :> 285) @@ ("after_2001" :> 285)))))
    @@ ("auxiliary_engine" :> (("HFO" :> (("before_1983" :> 225) @@ ("1984-2000" :> 205) @@ ("after_2001" :> 195)))
            @@ ("MDO" :> (("before_1983" :> 210) @@ ("1984-2000" :> 190) @@ ("after_2001" :> 185)))
            @@ ("LNG" :> ("after_2001" :> 156))))

\* sfc_baselines[engine_type][fuel_type][engine_age] does not raise KeyError
HasBaseline(engine_type, fuel_type, engine_age) ==
    /\ engine_type \in DOMAIN sfc_baselines
    /\ fuel_type \in DOMAIN sfc_baselines[engine_type]
    /\ engine_age \in DOMAIN sfc_baselines[engine_type][fuel_type]

\* 1.5, in 1e-4
MAX_ENGINE_LOAD == 15000

\* A faulty set: the auxiliary engine is corrected for load
LOAD_INDEPENDENT_TURBINES_AND_BOILER == {"gas_turbine", "steam_turbine", "steam_boiler"}

LOAD_INDEPENDENT == {"gas_turbine", "steam_turbine", "auxiliary_engine", "steam_boiler"}

\* (0.455 * load^2 - 0.710 * load + 1.280), in 1e-4
SfcPolynomial(engine_load) ==
    (455 * ((engine_load * engine_load) \div 10000)) \div 1000
      - (710 * engine_load) \div 1000 + 12800

\* A faulty lookup: a triple without an entry gets the baseline of a
\* medium-speed diesel
SfcBaselineDefault(engine_type, fuel_type, engine_age) ==
    IF HasBaseline(engine_type, fuel_type, engine_age)
    THEN Ok(sfc_baselines[engine_type][fuel_type][engine_age])
    ELSE Ok(sfc_baselines["MSD"]["MDO"]["after_2001"])

\* A faulty lookup: methanol is found for slow-speed diesels only
SfcBaselineMethanolSlowSpeedOnly(engine_type, fuel_type, engine_age) ==
    IF HasBaseline(engine_type, fuel_type, engine_age)
          /\ ~(fuel_type = "MeOH" /\ engine_type # "SSD")
    THEN Ok(sfc_baselines[engine_type][fuel_type][engine_age])
    ELSE Err("ValueError")

\* try: sfc_baselines[engine_type][fuel_type][engine_age]; the KeyError of the
\* lookup is re-raised as ValueError
SfcBaseline(engine_type, fuel_type, engine_age) ==
    IF HasBaseline(engine_type, fuel_type, engine_age)
    THEN Ok(sfc_baselines[engine_type][fuel_type][engine_age])
    ELSE Err("ValueError")

\* result in 0.1 g/kWh
estimate_specific_fuel_consumption(engine_load, engine_type, fuel_type, engine_age) ==
    LET sfc(sfc_baseline) ==
            IF ~sfc_baseline.ok THEN sfc_baseline
            ELSE IF engine_type \in LOAD_INDEPENDENT THEN Ok(sfc_baseline.val * 10)
            ELSE Ok((sfc_baseline.val * SfcPolynomial(engine_load)) \div 1000)
    IN Check(FirstFailure(<<
                 verify_set(fuel_type, FUEL_TYPES),
                 verify_set(engine_age, ENGINE_AGES),
                 verify_range(engine_load, 0, MAX_ENGINE_LOAD) >>),
             sfc(SfcBaseline(engine_type, fuel_type, engine_age)))

----------------------------------------------------------------------------
(* ceto/imo.py: estimate_auxiliary_power_demand *)

\* Table 17 of the Fourth IMO GHG study: lower bounds of the size buckets
vessel_sizes ==
    ("bulk_carrier" :> <<0, 10000, 35000, 60000, 100000, 200000>>)
    @@ ("chemical_tanker" :> <<0, 5000, 10000, 20000, 40000>>)
    @@ ("container" :> <<0, 1000, 2000, 3000, 5000, 8000, 12000, 14500, 20000>>)
    @@ ("general_cargo" :> <<0, 5000, 10000, 20000>>)
    @@ ("liquified_gas_tanker" :> <<0, 50000, 100000, 20000>>)
    @@ ("oil_tanker" :> <<0, 5000, 10000, 20000, 6000, 80000, 120000, 200000>>)
    @@ ("other_liquids_tankers" :> <<0, 1000>>)
    @@ ("ferry" :> <<0, 300, 1000, 2000>>)
    @@ ("cruise" :> <<0, 2000, 10000, 60000, 100000, 150000>>)
    @@ ("ropax" :> <<0, 2000, 5000, 10000, 20000>>)
    @@ ("refrigerated_bulk" :> <<0, 2000, 6000, 10000>>)
    @@ ("roro" :> <<0, 5000, 10000, 15000>>)
    @@ ("vehicle" :> <<0, 10000, 20000>>)
    @@ ("yacht" :> <<0>>)
    @@ ("service-tug" :> <<0>>)
    @@ ("miscellaneous-fishing" :> <<0>>)
    @@ ("offshore" :> <<0>>)
    @@ ("service-other" :> <<0>>)
    @@ ("miscellaneous-other" :> <<0>>)

\* kW; columns: boiler at_berth, anchored, manoeuvring, at_sea, then
\* auxiliary engine at_berth, anchored, manoeuvring, at_sea
auxiliary_power_outputs ==
    ("bulk_carrier" :> <<
        <<70, 70, 60, 0, 110, 180, 500, 190>>,
        <<70, 70, 60, 0, 110, 180, 500, 190>>,
        <<130, 130, 120, 0, 150, 250, 680, 260>>,
        <<260, 260, 240, 0, 240, 400, 1100, 410>>,
        <<260, 260, 240, 0, 240, 400, 1100, 410>>,
        <<260, 260, 240, 0, 240, 400, 1100, 410>> >>)
    @@ ("chemical_tanker" :> <<
        <<670, 160, 130, 0, 110, 170, 190, 200>>,
        <<670, 160, 130, 0, 330, 490, 560, 580>>,
        <<1000, 240, 200, 0, 330, 490, 560, 580>>,
        <<1350, 320, 270, 0, 790, 550, 900, 660>>,
        <<1350, 320, 270, 0, 790, 550, 900, 660>> >>)
    @@ ("container" :> <<
        <<250, 250, 240, 0, 370, 450, 790, 410>>,
        <<340, 340, 310, 0, 820, 910, 1750, 900>>,
        <<460, 450, 430, 0, 610, 910, 1900, 920>>,
        <<480, 480, 430, 0, 1100, 1350, 2500, 1400>>,
        <<590, 580, 550, 0, 1100, 1400, 2800, 1450>>,
        <<620, 620, 540, 0, 1150, 1600, 2900, 1800>>,
        <<630, 630, 630, 0, 1300, 1800, 3250, 2050>>,
        <<630, 630, 630, 0, 1400, 1950, 3600, 2300>>,
        <<700, 700, 700, 0, 1400, 1950, 3600, 2300>> >>)
    @@ ("general_cargo" :> <<
        <<0, 0, 0, 0, 90, 50, 180, 60>>,
        <<110, 110, 100, 0, 240, 130, 490, 180>>,
        <<150, 150, 130, 0, 720, 370, 1450, 520>>,
        <<150, 150, 130, 0, 720, 370, 1450, 520>> >>)
    @@ ("liquified_gas_tanker" :> <<
        <<1000, 200, 200, 100, 240, 240, 360, 240>>,
        <<1000, 200, 200, 100, 1700, 1700, 2600, 1700>>,
        <<1500, 300, 300, 150, 2500, 2000, 2300, 2650>>,
        <<3000, 600, 600, 300, 6750, 7200, 7200, 6750>> >>)
    @@ ("oil_tanker" :> <<
        <<500, 100, 100, 0, 250, 250, 375, 250>>,
        <<750, 150, 150, 0, 375, 375, 560, 375>>,
        <<1250, 250, 250, 0, 690, 500, 580, 490>>,
        <<2700, 270, 270, 270, 720, 520, 600, 510>>,
        <<3250, 360, 360, 280, 620, 490, 770, 560>>,
        <<4000, 400, 400, 280, 800, 640, 910, 690>>,
        <<6500, 500, 500, 300, 2500, 770, 1300, 860>>,
        <<7000, 600, 600, 300, 2500, 770, 1300, 860>> >>)
    @@ ("other_liquids_tankers" :> <<
        <<1000, 200, 200, 100, 500, 500, 750, 500>>,
        <<1000, 200, 200, 100, 500, 500, 750, 500>> >>)
    @@ ("ferry" :> <<
        <<0, 0, 0, 0, 190, 190, 190>>,
        <<0, 0, 0, 0, 190, 190, 190>>,
        <<0, 0, 0, 0, 190, 190, 190>>,
        <<0, 0, 0, 0, 520, 520, 520, 520>> >>)
    @@ ("cruise" :> <<
        <<1100, 950, 980, 0, 450, 450, 580, 450>>,
        <<1100, 950, 980, 0, 450, 450, 580, 450>>,
        <<1100, 950, 980, 0, 3500, 3500, 5500, 3500>>,
        <<1100, 950, 980, 0, 11500, 11500, 14900, 11500>>,
        <<1100, 950, 980, 0, 11500, 11500, 14900, 11500>>,
        <<1100, 950, 980, 0, 11500, 11500, 14900, 11500>> >>)
    @@ ("ropax" :> <<
        <<260, 250, 170, 0, 105, 105, 105, 105>>,
        <<260, 250, 170, 0, 330, 330, 330, 330>>,
        <<260, 250, 170, 0, 670, 670, 670, 670>>,
        <<390, 380, 260, 0, 1100, 1100, 1100, 1000>>,
        <<390, 380, 260, 0, 1950, 1950, 1950, 1950>> >>)
    @@ ("refrigerated_bulk" :> <<
        <<270, 270, 270, 0, 520, 570, 560, 570>>,
        <<270, 270, 270, 0, 1100, 1200, 1150, 1200>>,
        <<270, 270, 270, 0, 1500, 1650, 1600, 1650>>,
        <<270, 270, 270, 0, 2850, 3100, 3000, 3100>> >>)
    @@ ("roro" :> <<
        <<260, 250, 170, 0, 750, 430, 1300, 430>>,
        <<260, 250, 170, 0, 1100, 680, 2100, 680>>,
        <<390, 380, 260, 0, 1200, 950, 2700, 950>>,
        <<390, 380, 260, 0, 1200, 950, 2700, 950>> >>)
    @@ ("vehicle" :> <<
        <<310, 300, 250, 0, 800, 500, 1100, 500>>,
        <<310, 300, 250, 0, 850, 550, 1400, 510>>,
        <<310, 300, 250, 0, 850, 550, 1400, 510>> >>)
    @@ ("yacht" :> <<
        <<0, 0, 0, 0, 130, 130, 130, 130>> >>)
    @@ ("service-tug" :> <<
        <<0, 0, 0, 0, 100, 80, 210, 80>> >>)
    @@ ("miscellaneous-fishing" :> <<
        <<0, 0, 0, 0, 200, 200, 200, 200>> >>)
    @@ ("offshore" :> <<
        <<0, 0, 0, 0, 320, 320, 320, 320>> >>)
    @@ ("service-other" :> <<
        <<0, 0, 0, 0, 220, 220, 220, 220>> >>)
    @@ ("miscellaneous-other" :> <<
        <<110, 110, 90, 0, 150, 150, 430, 410>> >>)

\* (boiler column, auxiliary engine column), 0-based as in the source
column_indexes ==
    ("at_berth" :> <<0, 4>>) @@ ("anchored" :> <<1, 5>>)
    @@ ("manoeuvring" :> <<2, 6>>) @@ ("at_sea" :> <<3, 7>>)

\* sum([size >= vessel_size for vessel_size in vessel_sizes[vessel_type]]) - 1
RowIndex(vessel_type, size) ==
    Cardinality({i \in 1..Len(vessel_sizes[vessel_type]) :
                    size >= vessel_sizes[vessel_type][i]}) - 1

\* auxiliary_power_outputs[vessel_type][row_index][column], in dkW
TableCell(vessel_type, row_index, column) ==
    LET row == auxiliary_power_outputs[vessel_type][row_index + 1]
    IN IF column + 1 > Len(row) THEN Err("IndexError")
       ELSE Ok(row[column + 1] * 10)

\* 150 kW and 500 kW of installed propulsion power
AUX_ZERO_BELOW_KW == 150
AUX_TABLE_FROM_KW == 500

InstalledPropulsionPower(vessel_data) ==
    vessel_data["number_of_propulsion_engines"] * vessel_data["propulsion_engine_power"]

\* Ok([aux |-> aux_engine_power, boiler |-> boiler_power]) in dkW
estimate_auxiliary_power_demand(vessel_data, operation_mode) ==
    LET size == IF vessel_data["size"] = NULL THEN 0 ELSE vessel_data["size"]
        vessel_type == vessel_data["type"]
        installed_propulsion_power == InstalledPropulsionPower(vessel_data)
        boiler_index == column_indexes[operation_mode][1]
        engine_index == column_indexes[operation_mode][2]
        demand(boiler_power, aux_engine_power) ==
            IF installed_propulsion_power < AUX_ZERO_BELOW_KW
            THEN Ok([aux |-> 0, boiler |-> 0])
            ELSE IF ~boiler_power.ok THEN boiler_power
            ELSE IF installed_propulsion_power < AUX_TABLE_FROM_KW
            THEN Ok([aux |-> (installed_propulsion_power * 10) \div 20,
                     boiler |-> boiler_power.val])
            ELSE IF ~aux_engine_power.ok THEN aux_engine_power
            ELSE Ok([aux |-> aux_engine_power.val, boiler |-> boiler_power.val])
        row(row_index) ==
            demand(TableCell(vessel_type, row_index, boiler_index),
                   TableCell(vessel_type, row_index, engine_index))
    IN Check(FirstFailure(<<
                 verify_set(operation_mode, OPERATION_MODES),
                 verify_vessel_data(vessel_data) >>),
             IF vessel_type \notin DOMAIN vessel_sizes THEN Err("KeyError")
             ELSE row(RowIndex(vessel_type, size)))

----------------------------------------------------------------------------
(* ceto/imo.py: estimate_propulsion_engine_load *)

\* 1.0 of the draft factor
DRAFT_FACTOR_ONE == 1000000

\* Newton's iteration for f with f ** 3 = x ** 2, from y at or above it;
\* x and y in 1e-6, 1 <= x < 8
RECURSIVE DraftFactorFrom(_, _)
DraftFactorFrom(x, y) ==
    LET square(t) == MulDivExact(t, t, DRAFT_FACTOR_ONE)
        next(q) == IF q >= y THEN y ELSE DraftFactorFrom(x, q)
    IN next((2 * y + square(MulDivExact(x, DRAFT_FACTOR_ONE, y))) \div 3)

\* (draft / design_draft) ** (2 / 3), in 1e-6; a ratio outside [1, 8) is
\* scaled by 8 = 2 ** 3, which scales the result by 4
RECURSIVE DraftFactor(_, _)
DraftFactor(draught, design_draught) ==
    IF draught = 0 THEN 0
    ELSE IF draught < design_draught
         THEN DraftFactor(draught * 8, design_draught) \div 4
    ELSE IF draught >= 8 * design_draught
         THEN DraftFactor(draught, design_draught * 8) * 4
    ELSE LET from(x) == DraftFactorFrom(x, x)
         IN from(MulDivExact(draught, DRAFT_FACTOR_ONE, design_draught))

\* x * (speed / design_speed) ** 3, speed in kn and design_speed in 0.1 kn
SpeedFactor(x, speed, design_speed) ==
    MulDiv(MulDiv(MulDiv(x, speed * 10, design_speed), speed * 10, design_speed),
           speed * 10, design_speed)

vessels_with_10_000_dwt_as_threshold_for_w_c ==
    {"bulk_carrier", "chemical_carrier", "general_cargo", "oil_tanker"}
vessels_with_w_c_fixed_at_867 ==
    {"yacht", "vehicle", "refrigerated_bulk", "other_liquid_tankers"}
vessels_with_w_c_fixed_at_909 ==
    {"service-tug", "miscellaneous-fishing", "offshore", "service-other",
     "miscellaneous-other", "ropax", "ferry"}

\* fouling correction factor 0.917, in 1e-3
ETA_F == 917

\* Weather correction factor in 1e-3.  Comparing a None size raises TypeError.
WeatherFactor(vessel_type, size) ==
    LET threshold(limit, below, above) ==
            IF size = NULL THEN Err("TypeError")
            ELSE IF size < limit THEN Ok(below) ELSE Ok(above)
    IN IF vessel_type \in vessels_with_10_000_dwt_as_threshold_for_w_c
          THEN threshold(10000, 909, 867)
       ELSE IF vessel_type \in vessels_with_w_c_fixed_at_867 THEN Ok(867)
       ELSE IF vessel_type \in vessels_with_w_c_fixed_at_909 THEN Ok(909)
       ELSE IF vessel_type = "container" THEN threshold(1000, 900, 867)
       ELSE IF vessel_type = "cruise" THEN threshold(2000, 909, 867)
       ELSE IF vessel_type = "roro" THEN threshold(5000, 909, 867)
       ELSE Err("ValueError")

\* Speed power correction factor in 1e-3; delta_w = NULL stands for None
SpeedPowerFactor(vessel_type, size, delta_w) ==
    IF delta_w # NULL THEN delta_w
    ELSE IF vessel_type = "container" /\ size > 14500 THEN 750
    ELSE IF vessel_type = "cruise" THEN 700
    ELSE 1000

\* 7 % of the maximum continuous rating, in 1e-4
LOAD_LIMIT_7_PERCENT == 700

\* -1, 0, 1 as the load of the code lies below, on, above limit (1e-4), in the
\* arithmetic of the reals:
\*     delta_w * (draft / design_draft) ** (2 / 3) * (speed / design_speed) ** 3
\*         ? limit * eta_f * eta_w
\* is draft^2 * p^3 ? design_draft^2 * q^3 for p = delta_w * speed^3 and
\* q = limit * eta_f * eta_w * design_speed^3, both in units of 1e-10
LoadAgainst(limit, speed, draft, design_draft, design_speed, delta_w, eta_w) ==
    LET cube(a) == BigMul(a, BigMul(a, a))
        times(a, n) == BigMul(a, BigFromInt(n))
        square(n) == BigMul(BigFromInt(n), BigFromInt(n))
        against(p, q) == BigCmp(BigMul(square(draft), cube(p)),
                                BigMul(square(design_draft), cube(q)))
    IN against(times(times(cube(BigFromInt(speed * 10)), delta_w), 10000000),
               times(times(times(cube(BigFromInt(design_speed)), limit), ETA_F), eta_w))

\* The load in 1e-4 of its fixed-point value in 1e-6 (factor: the product
\* delta_w * (draft / design_draft) ** (2 / 3) in 1e-6).  The value is rounded down,
\* but never across LOAD_LIMIT_7_PERCENT or MAX_ENGINE_LOAD, the two limits the
\* code compares a load with: a load above 1.5 is above MAX_ENGINE_LOAD.  Where the
\* rounding of the factors could change the side of a limit, LoadAgainst decides it.
RoundLoad(value, factor, speed, draft, design_draft, design_speed, delta_w, eta_w) ==
    LET side(limit) ==
            IF factor < 4096 \/ Abs(value - limit * 100) <= (limit * 100) \div 64
            THEN LoadAgainst(limit, speed, draft, design_draft, design_speed,
                             delta_w, eta_w)
            ELSE IF value < limit * 100 THEN -1 ELSE 1
        rounded(low, high) ==
            IF low < 0
            THEN (IF value \div 100 < LOAD_LIMIT_7_PERCENT THEN value \div 100
                  ELSE LOAD_LIMIT_7_PERCENT - 1)
            ELSE IF high > 0
            THEN (IF value \div 100 > MAX_ENGINE_LOAD THEN value \div 100
                  ELSE MAX_ENGINE_LOAD + 1)
            ELSE IF value \div 100 < LOAD_LIMIT_7_PERCENT THEN LOAD_LIMIT_7_PERCENT
            ELSE IF value \div 100 > MAX_ENGINE_LOAD THEN MAX_ENGINE_LOAD
            ELSE value \div 100
    IN rounded(side(LOAD_LIMIT_7_PERCENT), side(MAX_ENGINE_LOAD))

\* Ok(load) in 1e-4
estimate_propulsion_engine_load(speed, draft, vessel_data, delta_w) ==
    LET size == vessel_data["size"]
        vessel_type == vessel_data["type"]
        design_draft == vessel_data["design_draft"]
        design_speed == vessel_data["design_speed"]
        speed_power == SpeedPowerFactor(vessel_type, size, delta_w)
        load(eta_w, factor) ==
            IF ~eta_w.ok THEN eta_w
            ELSE IF design_draft = 0 \/ design_speed = 0 THEN Err("ZeroDivisionError")
            ELSE Ok(RoundLoad(MulDiv(MulDiv(SpeedFactor(factor, speed, design_speed),
                                            1000, ETA_F), 1000, eta_w.val),
                              factor, speed, draft, design_draft, design_speed,
                              speed_power, eta_w.val))
    IN Check(FirstFailure(<<
                 verify_range(speed, 0, MAX_VESSEL_SPEED_KN),
                 verify_range(draft, MIN_VESSEL_DRAFT, MAX_VESSEL_DRAFT_M),
                 verify_vessel_data(vessel_data),
                 IF delta_w # NULL THEN verify_range(delta_w, 0, 1000) ELSE "ok" >>),
             \* delta_w * (draft / design_draft) ** (2 / 3) * (speed / design_speed) ** 3
             \* / (eta_f * eta_w)
             load(WeatherFactor(vessel_type, size),
                  MulDivExact(DraftFactor(draft, design_draft), speed_power, 1000)))

----------------------------------------------------------------------------
(* ceto/imo.py: the fuel / energy aggregators *)

\* results of a list of calls: the first exception raised, if any
AllOk(results) == \A i \in 1..Len(results) : results[i].ok
FirstErr(results) ==
    results[CHOOSE i \in 1..Len(results) :
                ~results[i].ok /\ \A j \in 1..(i - 1) : results[j].ok]
Vals(results) == [i \in 1..Len(results) |-> results[i].val]

\* the values of a list of outcomes, or the first exception raised in the list
AllOf(results) == IF AllOk(results) THEN Ok(Vals(results)) ELSE FirstErr(results)

\* a voyage_profile dict with its leg lists read from the heap: times in ch
View(voyage_profile, h) ==
    [k \in DOMAIN voyage_profile |->
        IF voyage_profile[k].ty = "list" THEN h[voyage_profile[k].ref]
        ELSE voyage_profile[k].v]

\* distance / speed of a leg, in ch
LegTime(leg) == (leg[1] * 100) \div leg[2]

\* sum([distance / speed for distance, speed, _ in legs])
TotalTime(legs) ==
    IF \E i \in 1..Len(legs) : legs[i][2] = 0 THEN Err("ZeroDivisionError")
    ELSE Ok(SumSeq([i \in 1..Len(legs) |-> LegTime(legs[i])]))

\* sum of the leg distances (dist_manoeuvring, dist_at_sea)
TotalDistance(legs) == SumSeq([i \in 1..Len(legs) |-> legs[i][1]])

\* power (dkW) * sfc (0.1 g/kWh) * time (ch), in g
FuelMass(power, sfc, time) == MulDiv(MulDiv(time, power, 100), sfc, 100)

\* installed_propulsion_power * load, in dkW
PropulsionPower(vessel_data, load) ==
    (InstalledPropulsionPower(vessel_data) * load) \div 1000

estimate_fuel_consumption_of_auxiliary_systems(vessel_data, operation_mode, time) ==
    LET fuel_type == vessel_data["propulsion_engine_fuel_type"]
        engine_age == vessel_data["propulsion_engine_age"]
        fuel(power, aux_engine_sfc, boiler_sfc) ==
            IF ~power.ok THEN power
            ELSE IF ~aux_engine_sfc.ok THEN aux_engine_sfc
            ELSE IF ~boiler_sfc.ok THEN boiler_sfc
            ELSE Ok([auxiliary_engine |->
                         FuelMass(power.val.aux, aux_engine_sfc.val, time),
                     steam_boiler |->
                         FuelMass(power.val.boiler, boiler_sfc.val, time)])
    IN fuel(estimate_auxiliary_power_demand(vessel_data, operation_mode),
            estimate_specific_fuel_consumption(10000, "auxiliary_engine", fuel_type,
                                               engine_age),
            estimate_specific_fuel_consumption(10000, "steam_boiler", fuel_type,
                                               engine_age))

\* fuel burnt by the propulsion engines on one leg, in g
FuelOfLeg(leg, vessel_data, limit_7_percent, delta_w) ==
    LET fuel(load, sfc) ==
            IF ~load.ok THEN load
            ELSE IF load.val < LOAD_LIMIT_7_PERCENT /\ limit_7_percent THEN Ok(0)
            ELSE IF ~sfc.ok THEN sfc
            ELSE IF leg[2] = 0 THEN Err("ZeroDivisionError")
            ELSE Ok(FuelMass(PropulsionPower(vessel_data, load.val), sfc.val,
                             LegTime(leg)))
        engine(load) ==
            fuel(load, estimate_specific_fuel_consumption(
                           load.val,
                           vessel_data["propulsion_engine_type"],
                           vessel_data["propulsion_engine_fuel_type"],
                           vessel_data["propulsion_engine_age"]))
    IN engine(estimate_propulsion_engine_load(leg[2], leg[3], vessel_data, delta_w))

FUEL_KEYS == {"number_of_propulsion_engines", "propulsion_engine_power",
              "propulsion_engine_fuel_type", "propulsion_engine_age",
              "propulsion_engine_type"}

ENERGY_KEYS == {"number_of_propulsion_engines", "propulsion_engine_power"}

\* The end of estimate_fuel_consumption: the averages per nautical mile and the
\* dict returned.  Masses in g.
FuelConsumptionResult(fc_aux_at_berth, fc_aux_anchored, fc_aux_manoeuvring, fc_prop_manoeuvring, dist_manoeuvring, fc_aux_at_sea, fc_prop_at_sea, dist_at_sea, include_steam_boilers) ==
    LET fc_at_berth == fc_aux_at_berth.auxiliary_engine
        fc_anchored == fc_aux_anchored.auxiliary_engine
        fc_manoeuvring == fc_aux_manoeuvring.auxiliary_engine + fc_prop_manoeuvring
        fc_at_sea == fc_aux_at_sea.auxiliary_engine + fc_prop_at_sea
    IN \* average consumption per nautical mile divides by the distance sailed
       IF dist_manoeuvring = 0 \/ dist_at_sea = 0 THEN Err("ZeroDivisionError")
       \* fc_["anchered"]["sub_total_kg"] = fc_anchored
       ELSE IF include_steam_boilers THEN Err("KeyError")
       ELSE Ok([total_kg |-> fc_at_berth + fc_anchored + fc_manoeuvring + fc_at_sea,
                at_berth |-> [sub_total_kg |-> fc_at_berth],
                anchored |-> [sub_total_kg |-> fc_anchored],
                manoeuvring |-> [sub_total_kg |-> fc_manoeuvring,
                                 propulsion_engine |-> fc_prop_manoeuvring],
                at_sea |-> [sub_total_kg |-> fc_at_sea,
                            propulsion_engine_kg |-> fc_prop_at_sea]])

\* voyage_profile is a View; the result's masses are in g
estimate_fuel_consumption(vessel_data, voyage_profile, include_steam_boilers, limit_7_percent, delta_w) ==
    LET has(k) == k \in DOMAIN voyage_profile
        aux(operation_mode, time) ==
            estimate_fuel_consumption_of_auxiliary_systems(vessel_data, operation_mode,
                                                           time)
        propulsion(legs) ==
            AllOf([i \in 1..Len(legs) |->
                      FuelOfLeg(legs[i], vessel_data, limit_7_percent, delta_w)])
        \* the statements in the order of the code: the first that raises ends the call
        consumption(fc_aux_at_berth, fc_aux_anchored, total_time_manoeuvring,
                    fc_aux_manoeuvring, prop_manoeuvring, total_time_at_sea,
                    fc_aux_at_sea, prop_at_sea) ==
            IF ~has("time_at_berth") THEN Err("KeyError")
            ELSE IF ~fc_aux_at_berth.ok THEN fc_aux_at_berth
            ELSE IF ~has("time_anchored") THEN Err("KeyError")
            ELSE IF ~fc_aux_anchored.ok THEN fc_aux_anchored
            ELSE IF ~has("legs_manoeuvring") THEN Err("KeyError")
            ELSE IF ~total_time_manoeuvring.ok THEN total_time_manoeuvring
            ELSE IF ~fc_aux_manoeuvring.ok THEN fc_aux_manoeuvring
            ELSE IF ~prop_manoeuvring.ok THEN prop_manoeuvring
            ELSE IF ~has("legs_at_sea") THEN Err("KeyError")
            ELSE IF ~total_time_at_sea.ok THEN total_time_at_sea
            ELSE IF ~fc_aux_at_sea.ok THEN fc_aux_at_sea
            ELSE IF ~prop_at_sea.ok THEN prop_at_sea
            ELSE FuelConsumptionResult(
                     fc_aux_at_berth.val, fc_aux_anchored.val, fc_aux_manoeuvring.val,
                     SumSeq(prop_manoeuvring.val),
                     TotalDistance(voyage_profile["legs_manoeuvring"]),
                     fc_aux_at_sea.val, SumSeq(prop_at_sea.val),
                     TotalDistance(voyage_profile["legs_at_sea"]),
                     include_steam_boilers)
    IN IF ~(FUEL_KEYS \subseteq DOMAIN vessel_data) THEN Err("KeyError")
       ELSE consumption(
                aux("at_berth", voyage_profile["time_at_berth"]),
                aux("anchored", voyage_profile["time_anchored"]),
                TotalTime(voyage_profile["legs_manoeuvring"]),
                aux("manoeuvring", TotalTime(voyage_profile["legs_manoeuvring"]).val),
                propulsion(voyage_profile["legs_manoeuvring"]),
                TotalTime(voyage_profile["legs_at_sea"]),
                aux("at_sea", TotalTime(voyage_profile["legs_at_sea"]).val),
                propulsion(voyage_profile["legs_at_sea"]))

\* A faulty leg: the 7 % rule is applied whatever the caller asked for
EnergyOfLegAlwaysLimited(leg, vessel_data, limit_7_percent, delta_w) ==
    LET energy(load) ==
            IF ~load.ok THEN load
            ELSE IF load.val < LOAD_LIMIT_7_PERCENT
            THEN Ok([energy |-> 0, power |-> 0])
            ELSE IF leg[2] = 0 THEN Err("ZeroDivisionError")
            ELSE Ok([energy |-> PropulsionPower(vessel_data, load.val) * LegTime(leg),
                     power |-> PropulsionPower(vessel_data, load.val)])
    IN energy(estimate_propulsion_engine_load(leg[2], leg[3], vessel_data, delta_w))

\* propulsion (energy Wh, power dkW) of one leg
EnergyOfLeg(leg, vessel_data, limit_7_percent, delta_w) ==
    LET energy(load) ==
            IF ~load.ok THEN load
            ELSE IF load.val < LOAD_LIMIT_7_PERCENT /\ limit_7_percent
            THEN Ok([energy |-> 0, power |-> 0])
            ELSE IF leg[2] = 0 THEN Err("ZeroDivisionError")
            ELSE Ok([energy |-> PropulsionPower(vessel_data, load.val) * LegTime(leg),
                     power |-> PropulsionPower(vessel_data, load.val)])
    IN energy(estimate_propulsion_engine_load(leg[2], leg[3], vessel_data, delta_w))

\* A faulty total: the demands of the four modes are added up
MaximumPowerDemandSummed(mode_demands) == SumSeq(mode_demands)

\* maximum_power_demand = max([...]) over the power demands of the four modes
MaximumPowerDemand(mode_demands) == MaxSeq(mode_demands)

\* The end of estimate_energy_consumption: the totals, the maximum and the
\* breakdown.  aux and time are indexed by operation mode; the legs hold the
\* propulsion energy and power of each leg.
EnergyConsumptionResult(aux, time, prop_manoeuvring, prop_at_sea, include_steam_boilers) ==
    LET propulsion_energy_manoeuvring ==
            [i \in 1..Len(prop_manoeuvring) |-> prop_manoeuvring[i].energy]
        propulsion_power_manoeuvring ==
            [i \in 1..Len(prop_manoeuvring) |-> prop_manoeuvring[i].power]
        propulsion_energy_at_sea ==
            [i \in 1..Len(prop_at_sea) |-> prop_at_sea[i].energy]
        propulsion_power_at_sea ==
            [i \in 1..Len(prop_at_sea) |-> prop_at_sea[i].power]
        aux_engine_energy(m) == aux[m].aux * time[m]
        aux_boiler_energy(m) == aux[m].boiler * time[m]
        energy_without_boilers ==
            aux_engine_energy("at_berth") + aux_engine_energy("anchored")
            + aux_engine_energy("manoeuvring") + SumSeq(propulsion_energy_manoeuvring)
            + aux_engine_energy("at_sea") + SumSeq(propulsion_energy_at_sea)
        boiler_energy ==
            aux_boiler_energy("at_berth") + aux_boiler_energy("anchored")
            + aux_boiler_energy("manoeuvring") + aux_boiler_energy("at_sea")
        boiler_power(m) == IF include_steam_boilers THEN aux[m].boiler ELSE 0
        \* the steam_boiler entries store the boiler energy under "power" too
        steam_boiler(m) ==
            IF include_steam_boilers
            THEN [steam_boiler |-> [energy |-> aux_boiler_energy(m),
                                    power |-> aux_boiler_energy(m)]]
            ELSE <<>>
        auxiliary_engine(m) ==
            [auxiliary_engine |-> [energy |-> aux_engine_energy(m), power |-> aux[m].aux]]
    IN \* max() of an empty list of leg powers
       IF prop_manoeuvring = <<>> \/ prop_at_sea = <<>> THEN Err("ValueError")
       ELSE Ok([total_energy_consumption |->
                    energy_without_boilers
                    + (IF include_steam_boilers THEN boiler_energy ELSE 0),
                maximum_power_demand |-> MaximumPowerDemand(<<
                    aux["at_berth"].aux + boiler_power("at_berth"),
                    aux["anchored"].aux + boiler_power("anchored"),
                    aux["manoeuvring"].aux + boiler_power("manoeuvring")
                        + MaxSeq(propulsion_power_manoeuvring),
                    aux["at_sea"].aux + boiler_power("at_sea")
                        + MaxSeq(propulsion_power_at_sea) >>),
                energy_and_power_consumption_breakdown |->
                    [at_berth |-> auxiliary_engine("at_berth") @@ steam_boiler("at_berth"),
                     anchored |-> auxiliary_engine("anchored") @@ steam_boiler("anchored"),
                     manoeuvring |-> auxiliary_engine("manoeuvring")
                        @@ [propulsion_engine |->
                               [energy |-> propulsion_energy_manoeuvring,
                                power |-> propulsion_power_manoeuvring]]
                        @@ steam_boiler("manoeuvring"),
                     at_sea |-> auxiliary_engine("at_sea")
                        @@ [propulsion_engine |->
                               [energy |-> propulsion_energy_at_sea,
                                power |-> propulsion_power_at_sea]]
                        @@ steam_boiler("at_sea")]])

\* The three values the function returns
EnergyTotals(vessel_data, voyage_profile, include_steam_boilers, limit_7_percent, delta_w) ==
    LET has(k) == k \in DOMAIN voyage_profile
        aux(operation_mode) == estimate_auxiliary_power_demand(vessel_data, operation_mode)
        propulsion(legs) ==
            AllOf([i \in 1..Len(legs) |->
                      EnergyOfLeg(legs[i], vessel_data, limit_7_percent, delta_w)])
        \* the statements in the order of the code: the first that raises ends the call
        totals(at_berth, anchored, total_time_manoeuvring, manoeuvring,
               prop_manoeuvring, total_time_at_sea, at_sea, prop_at_sea) ==
            IF ~at_berth.ok THEN at_berth
            ELSE IF ~has("time_at_berth") THEN Err("KeyError")
            ELSE IF ~anchored.ok THEN anchored
            ELSE IF ~has("time_anchored") THEN Err("KeyError")
            ELSE IF ~has("legs_manoeuvring") THEN Err("KeyError")
            ELSE IF ~total_time_manoeuvring.ok THEN total_time_manoeuvring
            ELSE IF ~manoeuvring.ok THEN manoeuvring
            ELSE IF ~prop_manoeuvring.ok THEN prop_manoeuvring
            ELSE IF ~has("legs_at_sea") THEN Err("KeyError")
            ELSE IF ~total_time_at_sea.ok THEN total_time_at_sea
            ELSE IF ~at_sea.ok THEN at_sea
            ELSE IF ~prop_at_sea.ok THEN prop_at_sea
            ELSE EnergyConsumptionResult(
                     [at_berth |-> at_berth.val, anchored |-> anchored.val,
                      manoeuvring |-> manoeuvring.val, at_sea |-> at_sea.val],
                     [at_berth |-> voyage_profile["time_at_berth"],
                      anchored |-> voyage_profile["time_anchored"],
                      manoeuvring |-> total_time_manoeuvring.val,
                      at_sea |-> total_time_at_sea.val],
                     prop_manoeuvring.val, prop_at_sea.val, include_steam_boilers)
    IN IF ~(ENERGY_KEYS \subseteq DOMAIN vessel_data) THEN Err("KeyError")
       ELSE totals(aux("at_berth"), aux("anchored"),
                   TotalTime(voyage_profile["legs_manoeuvring"]),
                   aux("manoeuvring"),
                   propulsion(voyage_profile["legs_manoeuvring"]),
                   TotalTime(voyage_profile["legs_at_sea"]),
                   aux("at_sea"),
                   propulsion(voyage_profile["legs_at_sea"]))

\* The function returns a 3-tuple: (total energy, maximum power, breakdown)
estimate_energy_consumption(vessel_data, voyage_profile, include_steam_boilers, limit_7_percent, delta_w) ==
    LET tuple(totals) ==
            IF ~totals.ok THEN totals
            ELSE Ok([kind |-> "tuple",
                     items |-> <<totals.val.total_energy_consumption,
                                 totals.val.maximum_power_demand,
                                 totals.val.energy_and_power_consumption_breakdown>>])
    IN tuple(EnergyTotals(vessel_data, voyage_profile, include_steam_boilers,
                          limit_7_percent, delta_w))

\* obj[key] for a string key: tuples take integer indexes only
GetItem(obj, key) ==
    IF obj.kind = "tuple" THEN Err("TypeError")
    ELSE IF key \notin DOMAIN obj.items THEN Err("KeyError")
    ELSE Ok(obj.items[key])

----------------------------------------------------------------------------
(* ceto/energy_systems.py: reference values and the combustion baseline *)

DENSITY_SEAWATER == 1025

REFERENCE_KEYS ==
    {"electrical_engine_volumetric_power_density_kw_p_m3",
     "electrical_engine_gravimetric_power_density_kw_p_kg",
     "fuel_cell_system_volumetric_power_density_kw_p_m3",
     "fuel_cell_system_gravimetric_power_density_kw_p_kg",
     "fuel_cell_efficiency_per",
     "battery_packs_volumetric_energy_density_kwh_p_m3",
     "battery_packs_gravimetric_energy_density_kwh_p_kg",
     "battery_depth_of_discharge_per",
     "hydrogen_gravimetric_energy_density_kwh_p_kg",
     "hydrogen_gas_tank_container_weight_to_content_weight_ratio_kg_p_kg",
     "hydrogen_gas_tank_container_volume_to_content_weight_ratio_l_p_kg"}

\* REFERENCE_VALUES, as the integers the fixed point arithmetic uses
\* 1.1183 kg per kW of electrical engine, in g per 100 dkW
ELECTRICAL_ENGINE_WEIGHT == 11183
\* 1 / 0.2 kg per kW of fuel cell system, in g per dkW
FUEL_CELL_SYSTEM_WEIGHT == 500
FUEL_CELL_EFFICIENCY_PER == 45
BATTERY_DEPTH_OF_DISCHARGE_PER == 80
\* 0.077, in 1e-3
BATTERY_PACKS_GRAVIMETRIC == 77
\* 119.96 / 3.6 kWh per kg: g of hydrogen = Wh * 360 / 11996
HYDROGEN_ENERGY_NUMERATOR == 360
HYDROGEN_ENERGY_DENOMINATOR == 11996
\* 17.92, in 1e-2
HYDROGEN_TANK_WEIGHT_RATIO == 1792

\* reference_values is the set of keys of the caller's dict
verify_reference_values(reference_values) ==
    IF REFERENCE_KEYS \subseteq reference_values THEN "ok" ELSE "Exception"

\* 38.946 * power ** 0.5865 in g, at 50, 60, ..., 2000 kW
ENGINE_WEIGHT_KNOTS ==
    << 386286, 429881, 470558, 508891, 545288, 580047, 613394, 645510, 676536, 706589,
        735767, 764151, 791810, 818804, 845185, 870998, 896282, 921072, 945401, 969297,
        992784, 1015885, 1038622, 1061014, 1083077, 1104827, 1126280, 1147449, 1168345, 1188982,
        1209369, 1229516, 1249434, 1269129, 1288612, 1307889, 1326968, 1345856, 1364558, 1383082,
        1401432, 1419614, 1437634, 1455495, 1473204, 1490764, 1508179, 1525453, 1542591, 1559595,
        1576470, 1593218, 1609843, 1626348, 1642735, 1659008, 1675170, 1691222, 1707167, 1723008,
        1738748, 1754387, 1769929, 1785375, 1800727, 1815988, 1831158, 1846241, 1861237, 1876149,
        1890977, 1905724, 1920391, 1934979, 1949491, 1963926, 1978287, 1992575, 2006791, 2020936,
        2035012, 2049020, 2062960, 2076835, 2090644, 2104389, 2118072, 2131692, 2145251, 2158750,
        2172190, 2185571, 2198895, 2212162, 2225373, 2238530, 2251632, 2264680, 2277676, 2290619,
        2303511, 2316353, 2329145, 2341887, 2354580, 2367226, 2379824, 2392375, 2404880, 2417339,
        2429753, 2442123, 2454448, 2466730, 2478969, 2491166, 2503321, 2515434, 2527506, 2539538,
        2551529, 2563481, 2575394, 2587269, 2599104, 2610902, 2622663, 2634386, 2646073, 2657724,
        2669338, 2680917, 2692461, 2703970, 2715445, 2726886, 2738293, 2749666, 2761007, 2772314,
        2783590, 2794833, 2806044, 2817224, 2828372, 2839490, 2850577, 2861634, 2872661, 2883658,
        2894626, 2905564, 2916473, 2927354, 2938206, 2949030, 2959826, 2970595, 2981336, 2992050,
        3002736, 3013396, 3024030, 3034637, 3045218, 3055773, 3066303, 3076807, 3087286, 3097740,
        3108169, 3118574, 3128954, 3139310, 3149642, 3159950, 3170234, 3180495, 3190733, 3200947,
        3211139, 3221308, 3231454, 3241578, 3251679, 3261759, 3271816, 3281852, 3291867, 3301859,
        3311831, 3321781, 3331711, 3341619, 3351507, 3361375 >>

\* 50 kW and 2000 kW, in dkW
MIN_COMBUSTION_ENGINE_POWER == 500
MAX_COMBUSTION_ENGINE_POWER == 20000

\* power in dkW; Ok(weight in g), linear between the knots
estimate_internal_combustion_engine(power) ==
    IF verify_range(power, MIN_COMBUSTION_ENGINE_POWER, MAX_COMBUSTION_ENGINE_POWER) # "ok"
    THEN Err("ValueError")
    ELSE LET k == (power - MIN_COMBUSTION_ENGINE_POWER) \div 100 + 1
             frac == (power - MIN_COMBUSTION_ENGINE_POWER) % 100
             low == ENGINE_WEIGHT_KNOTS[k]
         IN IF frac = 0 THEN Ok(low)
            ELSE Ok(low + ((ENGINE_WEIGHT_KNOTS[k + 1] - low) * frac) \div 100)

\* (1 + 2 * c_b) / 3 in 1e-4, c_b from the design Froude number of the hull;
\* length in dm, design_speed in 0.1 kn
WaterplaneCoefficient(design_speed, length) ==
    CASE length = 400 /\ design_speed = 0 -> 9166
      [] length = 400 /\ design_speed = 100 -> 8977
      [] length = 400 /\ design_speed = 130 -> 8782
      [] length = 800 /\ design_speed = 0 -> 9166
      [] length = 800 /\ design_speed = 100 -> 9068
      [] length = 800 /\ design_speed = 130 -> 9008
      [] length = 398 /\ design_speed = 135 -> 8725

DRAFT_KEYS == {"length", "beam", "design_speed"}

\* load_change in g; Ok(draft change in 1e-3 mm)
estimate_change_in_draft(vessel_data, load_change) ==
    IF ~(DRAFT_KEYS \subseteq DOMAIN vessel_data) THEN Err("KeyError")
    ELSE LET c_wp == WaterplaneCoefficient(vessel_data["design_speed"],
                                           vessel_data["length"])
             \* waterplane area l_wl * b_wl * c_wp with l_wl = 0.98 length, in 1e-4 m2
             a_wp == MulDiv(MulDiv(c_wp * vessel_data["length"], vessel_data["beam"],
                                   1000), 98, 100)
             \* g of load per mm of draft
             per_mm == MulDiv(a_wp, DENSITY_SEAWATER, 10000)
             change(load) == MulDivExact(1000, load, per_mm)
         IN Ok(IF load_change >= 0 THEN change(load_change)
               ELSE -change(-load_change))

\* the largest entry of a sequence, starting from 0.0
MaxFromZero(s) == MaxSeq(<<0>> \o s)

\* voyage_profile is a View; Ok([total_weight_kg |-> g])
estimate_internal_combustion_system(vessel_data, voyage_profile) ==
    LET has(k) == k \in DOMAIN vessel_data
        modes == <<"at_berth", "anchored", "manoeuvring", "at_sea">>
        \* the statements in the order of the code: the first that raises ends the call
        system(prop_engine, demand, max_aux_engine_power, aux_engine, fuel_consumption) ==
            IF ~has("propulsion_engine_power") THEN Err("KeyError")
            ELSE IF ~prop_engine.ok THEN prop_engine
            ELSE IF ~has("number_of_propulsion_engines") THEN Err("KeyError")
            ELSE IF ~has("propulsion_engine_type") THEN Err("KeyError")
            ELSE IF ~demand.ok THEN demand
            ELSE IF max_aux_engine_power # 0 /\ ~aux_engine.ok THEN aux_engine
            ELSE IF ~fuel_consumption.ok THEN fuel_consumption
            \* calculate_fuel_mass(fuel) is called without its fuel_type argument
            ELSE IF has("fuel_capacity") THEN Err("TypeError")
            ELSE LET prop_engines_weight ==
                         prop_engine.val * vessel_data["number_of_propulsion_engines"]
                     gearboxes_weight ==
                         IF vessel_data["propulsion_engine_type"] # "SSD"
                         THEN prop_engines_weight \div 5 ELSE 0
                     aux_engines_weight ==
                         IF max_aux_engine_power # 0 THEN aux_engine.val * 2 ELSE 0
                 IN Ok([total_weight_kg |->
                            prop_engines_weight + gearboxes_weight + aux_engines_weight
                            + fuel_consumption.val.total_kg,
                        fuel_consumption |-> fuel_consumption.val])
        auxiliary(prop_engine, demand, max_aux_engine_power) ==
            system(prop_engine, demand, max_aux_engine_power,
                   estimate_internal_combustion_engine(max_aux_engine_power),
                   estimate_fuel_consumption(vessel_data, voyage_profile, FALSE, FALSE,
                                             800))
        engines(prop_engine, demand) ==
            auxiliary(prop_engine, demand,
                      MaxFromZero([i \in 1..4 |-> demand.val[i].aux]))
    IN engines(estimate_internal_combustion_engine(
                   vessel_data["propulsion_engine_power"] * 10),
               AllOf([i \in 1..4 |->
                         estimate_auxiliary_power_demand(vessel_data, modes[i])]))

----------------------------------------------------------------------------
(* ceto/energy_systems.py: the two estimator strategies *)

\* the keyword parameters without default of each strategy
BATTERY_KEYS ==
    {"battery_packs_volumetric_energy_density_kwh_p_m3",
     "battery_packs_gravimetric_energy_density_kwh_p_kg",
     "battery_depth_of_discharge_per",
     "electrical_engine_volumetric_power_density_kw_p_m3",
     "electrical_engine_gravimetric_power_density_kw_p_kg"}

GAS_KEYS ==
    {"fuel_cell_system_volumetric_power_density_kw_p_m3",
     "fuel_cell_system_gravimetric_power_density_kw_p_kg",
     "electrical_engine_volumetric_power_density_kw_p_m3",
     "electrical_engine_gravimetric_power_density_kw_p_kg",
     "fuel_cell_efficiency_per",
     "hydrogen_gravimetric_energy_density_kwh_p_kg",
     "hydrogen_gas_tank_container_weight_to_content_weight_ratio_kg_p_kg",
     "hydrogen_gas_tank_container_volume_to_content_weight_ratio_l_p_kg"}

\* the four parameters both estimators take by position (lines 268 - 271 and
\* 368 - 371)
POSITIONAL_PARAMETERS ==
    {"required_energy_kwh", "required_power_kw", "number_of_propulsion_engines",
     "double_ended"}

\* A faulty binding: the keyword parameters have defaults, so a missing one is
\* accepted
BindArgumentsLenient(required, reference_values) ==
    IF reference_values \cap POSITIONAL_PARAMETERS # {} THEN "TypeError" ELSE "ok"

\* Binding **reference_values to the parameters of a call that passes four
\* arguments by position: a key named like one of these four gives the
\* parameter a second value, a keyword parameter without a key is missing; both
\* are a TypeError raised by the call itself, before the body runs.  Any other
\* key is taken by **kwargs.
BindArguments(required, reference_values) ==
    IF reference_values \cap POSITIONAL_PARAMETERS # {} THEN "TypeError"
    ELSE IF required \subseteq reference_values THEN "ok"
    ELSE "TypeError"

CeilDiv(a, b) == (a + b - 1) \div b

\* power per electrical engine in dkW: math.ceil(power / 10) * 10 kW
ElectricalEnginePower(required_power_kw, number_of_propulsion_engines, double_ended) ==
    IF double_ended
    \* required_power_kw / (number_of_propulsion_engines / 2)
    THEN CeilDiv(2 * required_power_kw, number_of_propulsion_engines * 100) * 100
    ELSE CeilDiv(required_power_kw, number_of_propulsion_engines * 100) * 100

ElectricalEngineWeight(power) == MulDiv(power, ELECTRICAL_ENGINE_WEIGHT, 100)

\* energy in Wh, power in dkW; Ok(estimate) with weights in g
estimate_vessel_battery_system(required_energy_kwh, required_power_kw, number_of_propulsion_engines, double_ended, reference_values) ==
    IF BindArguments(BATTERY_KEYS, reference_values) # "ok" THEN Err("TypeError")
    ELSE
    LET battery_packs_capacity_kwh ==
            MulDiv(required_energy_kwh, 100, BATTERY_DEPTH_OF_DISCHARGE_PER)
        battery_packs_weight_kg ==
            MulDiv(battery_packs_capacity_kwh, BATTERY_PACKS_GRAVIMETRIC, 1000)
        electrical_engine_power_kw ==
            ElectricalEnginePower(required_power_kw, number_of_propulsion_engines,
                                  double_ended)
        electrical_engine_weight_kg == ElectricalEngineWeight(electrical_engine_power_kw)
    IN Ok([total_weight_kg |->
               battery_packs_weight_kg
               + electrical_engine_weight_kg * number_of_propulsion_engines,
           capacity |-> battery_packs_capacity_kwh,
           power_per_engine_kw |-> electrical_engine_power_kw])

estimate_vessel_gas_hydrogen_system(required_energy_kwh, required_power_kw, number_of_propulsion_engines, double_ended, reference_values) ==
    IF BindArguments(GAS_KEYS, reference_values) # "ok" THEN Err("TypeError")
    ELSE
    LET hydrogen_weight_kg ==
            MulDiv(MulDiv(required_energy_kwh, 100, FUEL_CELL_EFFICIENCY_PER),
                   HYDROGEN_ENERGY_NUMERATOR, HYDROGEN_ENERGY_DENOMINATOR)
        fuel_cell_system_weight == required_power_kw * FUEL_CELL_SYSTEM_WEIGHT
        electrical_engine_power_kw ==
            ElectricalEnginePower(required_power_kw, number_of_propulsion_engines,
                                  double_ended)
        electrical_engine_weight_kg == ElectricalEngineWeight(electrical_engine_power_kw)
        hydrogen_gas_tank_weight ==
            MulDiv(hydrogen_weight_kg, HYDROGEN_TANK_WEIGHT_RATIO, 100)
    IN Ok([total_weight_kg |->
               hydrogen_weight_kg + hydrogen_gas_tank_weight + fuel_cell_system_weight
               + electrical_engine_weight_kg * number_of_propulsion_engines,
           capacity |-> hydrogen_weight_kg,
           power_per_engine_kw |-> electrical_engine_power_kw])

\* the estimate_energy_system argument of _iterate_energy_system
Estimator(strategy, required_energy_kwh, required_power_kw, number_of_propulsion_engines, double_ended, reference_values) ==
    IF strategy = "gas"
    THEN estimate_vessel_gas_hydrogen_system(required_energy_kwh, required_power_kw,
             number_of_propulsion_engines, double_ended, reference_values)
    ELSE estimate_vessel_battery_system(required_energy_kwh, required_power_kw,
             number_of_propulsion_engines, double_ended, reference_values)

----------------------------------------------------------------------------
(* The caller's inputs *)

\* an offshore vessel, size None, with one 1000 kW medium-speed diesel engine
BaseVessel ==
    [type |-> "offshore", size |-> NULL, length |-> 800, beam |-> 1600,
     design_speed |-> 100, design_draft |-> 7000, double_ended |-> FALSE,
     number_of_propulsion_engines |-> 1, propulsion_engine_power |-> 1000,
     propulsion_engine_type |-> "MSD", propulsion_engine_age |-> "after_2001",
     propulsion_engine_fuel_type |-> "MDO"]

\* the vessel of the energy system tests: 39.8 m by 10.46 m, 13.5 kn, 2.84 m
DUMMY_VESSEL_DATA ==
    [length |-> 398, beam |-> 1046, design_speed |-> 135, design_draft |-> 2840,
     double_ended |-> FALSE, number_of_propulsion_engines |-> 4,
     propulsion_engine_power |-> 330, propulsion_engine_type |-> "MSD",
     propulsion_engine_age |-> "after_2000", propulsion_engine_fuel_type |-> "MDO",
     type |-> "ferry-pax", size |-> 686]

Without(dict_, key) == [k \in DOMAIN dict_ \ {key} |-> dict_[k]]

Vessels ==
    { BaseVessel,
      [BaseVessel EXCEPT !.number_of_propulsion_engines = 2,
                         !.propulsion_engine_power = 600, !.double_ended = TRUE],
      [BaseVessel EXCEPT !.type = "miscellaneous-other", !.length = 400, !.beam = 1000,
                         !.design_speed = 130],
      [BaseVessel EXCEPT !.type = "service-tug", !.propulsion_engine_power = 100],
      [BaseVessel EXCEPT !.type = "bulk_carrier", !.size = 20000,
                         !.propulsion_engine_type = "SSD",
                         !.propulsion_engine_fuel_type = "HFO",
                         !.propulsion_engine_age = "1984-2000",
                         !.propulsion_engine_power = 2000],
      [BaseVessel EXCEPT !.type = "ferry", !.size = 686, !.propulsion_engine_power = 330],
      [BaseVessel EXCEPT !.type = "ferry", !.size = 686],
      [BaseVessel EXCEPT !.type = "chemical_tanker", !.size = 8000],
      [BaseVessel EXCEPT !.type = "refrigerated_cargo", !.size = 8000],
      [BaseVessel EXCEPT !.propulsion_engine_fuel_type = "MeOH"],
      [BaseVessel EXCEPT !.propulsion_engine_power = 5000],
      [fuel_capacity |-> 5000] @@ BaseVessel,
      Without(BaseVessel, "length"),
      \* vessels that break a rule of the data model
      Without(BaseVessel, "size"),
      [BaseVessel EXCEPT !.type = "ferry-pax"],
      [BaseVessel EXCEPT !.type = "bulk_carrier"],
      [BaseVessel EXCEPT !.propulsion_engine_power = 3],
      [BaseVessel EXCEPT !.number_of_propulsion_engines = 4],
      [BaseVessel EXCEPT !.propulsion_engine_age = "after_2000"],
      DUMMY_VESSEL_DATA }

Float(v) == [ty |-> "float", v |-> v]
IntegerValue(v) == [ty |-> "int", v |-> v]
ListRef(ref) == [ty |-> "list", ref |-> ref]

\* a voyage of 10 h at anchor, 10 h at berth and legs at 10 kn and 7 m draft:
\* its dict and its two list objects
BaseProfile ==
    [d |-> [time_anchored |-> Float(1000), time_at_berth |-> Float(1000),
            legs_manoeuvring |-> ListRef(1), legs_at_sea |-> ListRef(2)],
     h |-> << <<<<10, 10, 7000>>>>, <<<<10, 10, 7000>>, <<20, 10, 7000>>>> >>]

\* the voyage of the energy system tests: 10.0 h at anchor, 10.0 h at berth,
\* one manoeuvring leg and two legs at sea at 10 kn and 6 m draft
DUMMY_VOYAGE_PROFILE ==
    [d |-> [time_anchored |-> Float(1000), time_at_berth |-> Float(1000),
            legs_manoeuvring |-> ListRef(1), legs_at_sea |-> ListRef(2)],
     h |-> << <<<<10, 10, 6000>>>>, <<<<30, 10, 6000>>, <<30, 10, 6000>>>> >>]

Profiles ==
    { BaseProfile,
      DUMMY_VOYAGE_PROFILE,
      [BaseProfile EXCEPT !.h[2] = <<<<10, 4, 7000>>, <<20, 10, 6000>>>>],
      [BaseProfile EXCEPT !.h[2] = <<<<10, 12, 7000>>>>],
      [BaseProfile EXCEPT !.h[1] = <<>>],
      [BaseProfile EXCEPT !.h[2] = <<<<10, 10, 26000>>>>],
      \* both keys hold the same list object
      [BaseProfile EXCEPT !.d.legs_manoeuvring = ListRef(2)],
      \* profiles that break a rule of the data model
      [BaseProfile EXCEPT !.h[2] = <<<<10, 10, 7000>>, <<10, 0, 7000>>>>],
      [BaseProfile EXCEPT !.d.time_at_berth = IntegerValue(1000)],
      [BaseProfile EXCEPT !.d.time_anchored = Float(-100)],
      [BaseProfile EXCEPT !.d = Without(BaseProfile.d, "legs_at_sea")] }

ReferenceValues ==
    { REFERENCE_KEYS,
      REFERENCE_KEYS \ {"battery_depth_of_discharge_per"},
      REFERENCE_KEYS \ {"fuel_cell_efficiency_per"},
      REFERENCE_KEYS \cup {"battery_depth_of_discharge_pct"},
      \* a key named like a positional parameter of the estimators
      REFERENCE_KEYS \cup {"double_ended"} }

\* number of solver calls the caller makes on the same objects
MaxCalls == 2

----------------------------------------------------------------------------
(* The solver: suggest_alternative_energy_systems and _iterate_energy_system *)

MAX_ITERATIONS == 100
\* abs(change_draft) < design_draft * 0.01
DRAFT_TOLERANCE_PER == 1

\* the test of line 601 on the floats of the code: change_draft in 1e-3 mm,
\* design_draft in mm
WithinDraftTolerance(change_draft, vessel_data) ==
    F64Cmp(F64Ratio(Abs(change_draft), 1000, 1000),
           F64Mul(Decimal(vessel_data["design_draft"], 1000),
                  Decimal(DRAFT_TOLERANCE_PER, 100))) < 0
\* delta_w = 0.8, in 1e-3
ITERATE_DELTA_W == 800

NoFrame ==
    [strategy |-> "none", ice |-> 0, weight |-> 0, iteration |-> 0, copy |-> <<>>]

NoCall == [op |-> "none"]

Init ==
    /\ vessel \in Vessels
    /\ \E p \in Profiles : vp = p.d /\ heap = p.h
    /\ refs \in ReferenceValues
    /\ vp0 = vp
    /\ heap0 = heap
    /\ pc = "idle"
    /\ frame = NoFrame
    /\ gas = Err("none")
    /\ entry = "none"
    /\ outcome = Err("none")
    /\ evaluated = {}
    /\ history = <<>>
    /\ call = NoCall

\* the exception leaves the call: the caller sees it.  bodies counts the passes
\* through the while loop the call had begun.
Raise(by, err, bodies) ==
    /\ pc' = "done"
    /\ outcome' = [ok |-> FALSE, err |-> err, by |-> by, bodies |-> bodies]
    /\ history' = Append(history, [entry |-> entry, strategy |-> frame.strategy,
                                   ok |-> FALSE, err |-> err, by |-> by])
    /\ frame' = NoFrame

\* the caller may call once it is idle or its previous call has finished
CallerReady == pc \in {"idle", "done"} /\ Len(history) < MaxCalls /\ call = NoCall

\* suggest_alternative_energy_systems up to its first call of _iterate_energy_system
Suggest ==
    /\ CallerReady
    /\ evaluated' = {}
    /\ gas' = Err("none")
    /\ entry' = "suggest"
    /\ \E failure \in {FirstFailure(<<verify_vessel_data(vessel),
                                      verify_voyage_profile(vp),
                                      verify_reference_values(refs)>>)} :
          IF failure # "ok"
          THEN /\ pc' = "done"
               /\ outcome' = [ok |-> FALSE, err |-> failure, by |-> "verify",
                              bodies |-> 0]
               /\ history' = Append(history, [entry |-> "suggest", strategy |-> "none",
                                 ok |-> FALSE, err |-> failure, by |-> "verify"])
               /\ frame' = NoFrame
          ELSE /\ pc' = "init"
               /\ outcome' = Err("none")
               /\ frame' = [NoFrame EXCEPT !.strategy = "gas"]
               /\ UNCHANGED history
    /\ UNCHANGED <<vessel, vp, heap, refs, vp0, heap0, call>>

\* the caller calls _iterate_energy_system itself
Iterate(strategy) ==
    /\ CallerReady
    /\ evaluated' = {}
    /\ gas' = Err("none")
    /\ pc' = "init"
    /\ entry' = "iterate"
    /\ outcome' = Err("none")
    /\ frame' = [NoFrame EXCEPT !.strategy = strategy]
    /\ UNCHANGED <<vessel, vp, heap, refs, vp0, heap0, history, call>>

\* voyage_profile.copy() (line 579): a new dict, kept in the frame of the call,
\* holding the same values under the same keys, so the references to the same
\* list objects.  The caller's dict and the heap are left as they are.
CopyProfile(voyage_profile) == [key \in DOMAIN voyage_profile |-> voyage_profile[key]]

\* _iterate_energy_system up to the while loop (lines 566 - 578): the combustion
\* baseline, the initial weight, the copy of the voyage profile.
IterateInit ==
    /\ pc = "init"
    /\ evaluated' = evaluated \cup {"ice"}
    /\ \E ice \in {estimate_internal_combustion_system(vessel, View(vp, heap))} :
          IF ~ice.ok
          THEN /\ Raise("ice", ice.err, 0)
               /\ UNCHANGED <<vp, heap>>
          ELSE /\ pc' = "loop"
               /\ frame' = [frame EXCEPT !.ice = ice.val.total_weight_kg,
                                         !.weight = ice.val.total_weight_kg,
                                         !.iteration = 0,
                                         !.copy = CopyProfile(vp)]
               /\ UNCHANGED <<vp, heap, outcome, history>>
    /\ UNCHANGED <<vessel, refs, vp0, heap0, gas, entry, call>>

\* _iterate_energy_system returns new_system to its caller
Return(new_system, bodies) ==
    IF entry = "suggest" /\ frame.strategy = "gas"
    THEN \* suggest_alternative_energy_systems goes on to the battery solve
         /\ pc' = "init"
         /\ gas' = Ok(new_system)
         /\ frame' = [NoFrame EXCEPT !.strategy = "battery"]
         /\ UNCHANGED <<outcome, history>>
    ELSE \E value \in {IF entry = "suggest"
                       THEN [gas |-> gas.val, battery |-> new_system]
                       ELSE [estimate |-> new_system]} :
            /\ pc' = "done"
            /\ outcome' = [ok |-> TRUE, val |-> value, bodies |-> bodies]
            /\ history' = Append(history, [entry |-> entry, strategy |-> frame.strategy,
                                           ok |-> TRUE, val |-> value])
            /\ frame' = NoFrame
            /\ UNCHANGED gas

\* the legs of a list with the draft change (1e-3 mm) added to every draft (mm)
AdjustLegs(legs, change_draft) ==
    [i \in 1..Len(legs) |->
        <<legs[i][1], legs[i][2], legs[i][3] + SDiv(change_draft, 1000)>>]

\* Lines 601 - 611: both leg keys of voyage_profile_copy are bound to new lists
\* holding the adjusted legs.  Gives the dict and the heap after the statements.
UpdateDrafts(copy_dict, h, change_draft) ==
    [d |-> [copy_dict EXCEPT !.legs_manoeuvring = ListRef(Len(h) + 1),
                             !.legs_at_sea = ListRef(Len(h) + 2)],
     heap |-> h \o <<AdjustLegs(h[copy_dict.legs_manoeuvring.ref], change_draft),
                     AdjustLegs(h[copy_dict.legs_at_sea.ref], change_draft)>>]

\* The rest of a pass once new_system and change_draft are known (lines 596 - 618)
FinishPass(new_system, change_draft, bodies) ==
    \E result \in {[change_in_draft_m |->
                       estimate_change_in_draft(
                           vessel, new_system.total_weight_kg - frame.ice).val]
                   @@ new_system},
       updated \in {UpdateDrafts(frame.copy, heap, change_draft)} :
       IF WithinDraftTolerance(change_draft, vessel)
       THEN Return(result, bodies) /\ UNCHANGED <<vp, heap>>
       ELSE /\ heap' = updated.heap
            /\ UNCHANGED vp
            /\ IF bodies < MAX_ITERATIONS
               THEN /\ pc' = "loop"
                    /\ frame' = [frame EXCEPT
                          !.weight = new_system.total_weight_kg,
                          !.iteration = bodies,
                          !.copy = updated.d]
                    /\ UNCHANGED <<outcome, history, gas>>
               ELSE Return(result, bodies)

\* One pass through the body of the while loop (lines 580 - 613) and, when the
\* loop is left, lines 615 - 618.
IterateStep ==
    /\ pc = "loop"
    /\ \E bodies \in {frame.iteration + 1},
          energy \in {estimate_energy_consumption(
                          vessel, View(frame.copy, heap), FALSE, FALSE,
                          ITERATE_DELTA_W)} :
          IF ~energy.ok
          THEN /\ Raise("energy", energy.err, bodies)
               /\ evaluated' = evaluated \cup {"energy"}
               /\ UNCHANGED <<vp, heap, gas>>
          ELSE \E total_kwh \in {GetItem(energy.val, "total_kwh")},
                  maximum_kw \in {GetItem(energy.val, "maximum_required_total_power_kw")} :
               IF ~total_kwh.ok \/ ~maximum_kw.ok
                    \/ ~({"number_of_propulsion_engines", "double_ended"}
                            \subseteq DOMAIN vessel)
               THEN /\ Raise("solver",
                             IF ~total_kwh.ok THEN total_kwh.err
                             ELSE IF ~maximum_kw.ok THEN maximum_kw.err
                             ELSE "KeyError",
                             bodies)
                    /\ evaluated' = evaluated \cup {"energy"}
                    /\ UNCHANGED <<vp, heap, gas>>
               ELSE /\ evaluated' = evaluated \cup {"energy", "estimator"}
                    /\ \E new_system \in {Estimator(frame.strategy, total_kwh.val,
                                              maximum_kw.val,
                                              vessel["number_of_propulsion_engines"],
                                              vessel["double_ended"], refs)} :
                       IF ~new_system.ok
                       THEN /\ Raise("estimator", new_system.err, bodies)
                            /\ UNCHANGED <<vp, heap, gas>>
                       ELSE \E change_draft \in {estimate_change_in_draft(
                                    vessel,
                                    new_system.val.total_weight_kg - frame.weight)} :
                            IF ~change_draft.ok
                            THEN /\ Raise("solver", change_draft.err, bodies)
                                 /\ UNCHANGED <<vp, heap, gas>>
                            ELSE FinishPass(new_system.val, change_draft.val, bodies)
    /\ UNCHANGED <<vessel, refs, vp0, heap0, entry, call>>

----------------------------------------------------------------------------
(* Direct calls of the estimators and of the fuel aggregator *)

\* required energy in Wh and required power in dkW handed to an estimator
Energies == {0, 10000000}
Powers == {9995, 10000, 15197}

CallEstimator(strategy) ==
    /\ pc = "idle"
    /\ \E e \in Energies, p \in Powers, n \in {1, 2}, de \in BOOLEAN :
          call' = [op |-> strategy,
                   args |-> <<e, p, n, de>>,
                   out |-> Estimator(strategy, e, p, n, de, refs)]
    /\ pc' = "called"
    /\ UNCHANGED <<vessel, vp, heap, refs, vp0, heap0, frame, gas, entry, outcome,
                   evaluated, history>>

\* estimate_fuel_consumption(vessel_data, voyage_profile, ...)
CallFuel(include_steam_boilers, limit_7_percent, delta_w) ==
    /\ pc = "idle"
    /\ call' = [op |-> "fuel",
                args |-> <<include_steam_boilers, limit_7_percent, delta_w>>,
                out |-> estimate_fuel_consumption(vessel, View(vp, heap),
                            include_steam_boilers, limit_7_percent, delta_w)]
    /\ pc' = "called"
    /\ UNCHANGED <<vessel, vp, heap, refs, vp0, heap0, frame, gas, entry, outcome,
                   evaluated, history>>

Next ==
    \/ Suggest
    \/ \E strategy \in {"gas", "battery"} : Iterate(strategy)
    \/ IterateInit
    \/ IterateStep
    \/ \E strategy \in {"gas", "battery"} : CallEstimator(strategy)
    \* the fuel estimate with delta_w=None
    \/ \E include_steam_boilers \in BOOLEAN, limit_7_percent \in BOOLEAN :
          CallFuel(include_steam_boilers, limit_7_percent, NULL)

Spec == Init /\ [][Next]_vars

----------------------------------------------------------------------------
(* Direct calls of estimate_specific_fuel_consumption *)

\* engine loads in 1e-4: the ends of the range, values inside, one beyond it
SfcLoads == {0, 5000, 10000, 15000, 15001}
SfcEngineTypes == ENGINE_TYPES \cup {"steam_boiler", "auxiliary_engine", "sail"}
SfcFuelTypes == FUEL_TYPES \cup {"coal"}
SfcEngineAges == ENGINE_AGES \cup {"after_2000"}

InitSfc ==
    /\ vessel = BaseVessel
    /\ vp = BaseProfile.d
    /\ heap = BaseProfile.h
    /\ refs = REFERENCE_KEYS
    /\ vp0 = vp
    /\ heap0 = heap
    /\ pc = "idle"
    /\ frame = NoFrame
    /\ gas = Err("none")
    /\ entry = "none"
    /\ outcome = Err("none")
    /\ evaluated = {}
    /\ history = <<>>
    /\ call = NoCall

CallSfc(engine_load, engine_type, fuel_type, engine_age) ==
    /\ pc = "idle"
    /\ call' = [op |-> "sfc",
                args |-> <<engine_load, engine_type, fuel_type, engine_age>>,
                out |-> estimate_specific_fuel_consumption(
                            engine_load, engine_type, fuel_type, engine_age)]
    /\ pc' = "called"
    /\ UNCHANGED <<vessel, vp, heap, refs, vp0, heap0, frame, gas, entry, outcome,
                   evaluated, history>>

NextSfc ==
    \E engine_load \in SfcLoads, engine_type \in SfcEngineTypes,
       fuel_type \in SfcFuelTypes, engine_age \in SfcEngineAges :
          CallSfc(engine_load, engine_type, fuel_type, engine_age)

SpecSfc == InitSfc /\ [][NextSfc]_vars

----------------------------------------------------------------------------
(* Direct calls of the two aggregators on voyages with special legs *)

\* a container vessel of 500 TEU with a design draft of 7.29 m: at 9 kn, a draft
\* of 3.43 m and delta_w = 0.131 its load is
\* (3.43 / 7.29)^(2/3) * (9 / 10)^3 * 0.131 / (0.9 * 0.917)
\*    = (49 / 81) * 0.729 * 0.131 / (0.9 * 0.917) = 0.07,
\* and the floats of the code give 0.07 too
LIMIT_VESSEL ==
    [BaseVessel EXCEPT !.type = "container", !.size = 500, !.design_draft = 7290]

\* vessels the data model accepts: the offshore vessel, a double-ended one with
\* two engines, a bulk carrier with boilers, a tug below 150 kW, the container
\* vessel of the 7 % limit
VoyageVessels ==
    { BaseVessel,
      [BaseVessel EXCEPT !.number_of_propulsion_engines = 2,
                         !.propulsion_engine_power = 600, !.double_ended = TRUE],
      [BaseVessel EXCEPT !.type = "bulk_carrier", !.size = 20000,
                         !.propulsion_engine_type = "SSD",
                         !.propulsion_engine_fuel_type = "HFO",
                         !.propulsion_engine_age = "1984-2000",
                         !.propulsion_engine_power = 2000],
      [BaseVessel EXCEPT !.type = "service-tug", !.propulsion_engine_power = 100],
      LIMIT_VESSEL }

\* a leg (distance nm, speed kn, draft mm) that LIMIT_VESSEL sails at a load of
\* exactly 7 % when delta_w is LIMIT_DELTA_W
LEG_AT_7_PERCENT == <<9, 9, 3430>>
\* legs of the offshore vessel below 7 % and just above 7 % (delta_w=None)
LEG_BELOW_7_PERCENT == <<10, 3, 7000>>
LEG_ABOVE_7_PERCENT == <<10, 4, 7000>>

VoyageProfiles ==
    { BaseProfile,
      \* a leg sailed at speed 0
      [BaseProfile EXCEPT !.h[2] = <<<<10, 10, 7000>>, <<10, 0, 7000>>>>],
      [BaseProfile EXCEPT !.h[1] = <<<<10, 0, 7000>>>>],
      \* a mode without legs
      [BaseProfile EXCEPT !.h[1] = <<>>],
      [BaseProfile EXCEPT !.h[2] = <<>>],
      \* legs sailed faster than the design speed
      [BaseProfile EXCEPT !.h[2] = <<<<10, 12, 7000>>>>],
      [BaseProfile EXCEPT !.h[2] = <<<<10, 10, 7000>>, <<10, 11, 7000>>>>],
      \* a leg at a load of 1.500034, just above the range of the sfc
      [BaseProfile EXCEPT !.h[2] = <<<<10, 10, 9787>>>>],
      \* legs around the 7 % load limit
      [BaseProfile EXCEPT !.h[1] = <<LEG_AT_7_PERCENT>>,
                          !.h[2] = <<LEG_AT_7_PERCENT, LEG_AT_7_PERCENT>>],
      [BaseProfile EXCEPT !.h[1] = <<LEG_BELOW_7_PERCENT>>,
                          !.h[2] = <<LEG_BELOW_7_PERCENT>>],
      [BaseProfile EXCEPT !.h[2] = <<LEG_ABOVE_7_PERCENT, LEG_BELOW_7_PERCENT>>],
      \* the largest propulsion power is needed while manoeuvring
      [BaseProfile EXCEPT !.h[2] = <<LEG_ABOVE_7_PERCENT>>],
      [BaseProfile EXCEPT !.h[1] = <<<<10, 8, 7000>>, <<5, 10, 7000>>>>,
                          !.h[2] = <<<<10, 9, 7000>>, <<20, 6, 6000>>>>] }

\* delta_w = 0.131, in 1e-3
LIMIT_DELTA_W == 131

\* the delta_w arguments: None, the 0.8 the solver passes and the 0.131 of the
\* leg at the 7 % limit
DeltaWs == {NULL, 800, LIMIT_DELTA_W}

InitVoyage ==
    /\ vessel \in VoyageVessels
    /\ \E p \in VoyageProfiles : vp = p.d /\ heap = p.h
    /\ refs = REFERENCE_KEYS
    /\ vp0 = vp
    /\ heap0 = heap
    /\ pc = "idle"
    /\ frame = NoFrame
    /\ gas = Err("none")
    /\ entry = "none"
    /\ outcome = Err("none")
    /\ evaluated = {}
    /\ history = <<>>
    /\ call = NoCall

\* estimate_energy_consumption(vessel_data, voyage_profile, ...)
CallEnergy(include_steam_boilers, limit_7_percent, delta_w) ==
    /\ pc = "idle"
    /\ call' = [op |-> "energy",
                args |-> <<include_steam_boilers, limit_7_percent, delta_w>>,
                out |-> estimate_energy_consumption(vessel, View(vp, heap),
                            include_steam_boilers, limit_7_percent, delta_w)]
    /\ pc' = "called"
    /\ UNCHANGED <<vessel, vp, heap, refs, vp0, heap0, frame, gas, entry, outcome,
                   evaluated, history>>

NextVoyage ==
    \/ \E include_steam_boilers \in BOOLEAN, limit_7_percent \in BOOLEAN,
          delta_w \in DeltaWs :
          CallFuel(include_steam_boilers, limit_7_percent, delta_w)
    \/ \E include_steam_boilers \in BOOLEAN, limit_7_percent \in BOOLEAN,
          delta_w \in DeltaWs :
          CallEnergy(include_steam_boilers, limit_7_percent, delta_w)

SpecVoyage == InitVoyage /\ [][NextVoyage]_vars

----------------------------------------------------------------------------
(* Direct calls of estimate_auxiliary_power_demand *)

\* size arguments: None and every size limit of the table
AuxSizes ==
    {NULL} \cup UNION {{vessel_sizes[vessel_type][i] :
                           i \in 1..Len(vessel_sizes[vessel_type])} :
                       vessel_type \in DOMAIN vessel_sizes}

\* (number of engines, power per engine in kW): installed powers of 100, 149,
\* 150, 499, 500 and 1000 kW
AuxEngines == {<<1, 100>>, <<1, 149>>, <<1, 150>>, <<2, 75>>, <<1, 499>>,
               <<1, 500>>, <<2, 250>>, <<1, 1000>>}

\* the vessel_data of a call: the offshore vessel with another type, size and engines
AuxVessel(vessel_type, size, engines) ==
    [BaseVessel EXCEPT !.type = vessel_type, !.size = size,
                       !.number_of_propulsion_engines = engines[1],
                       !.propulsion_engine_power = engines[2]]

CallAux(vessel_type, size, engines, operation_mode) ==
    /\ pc = "idle"
    /\ call' = [op |-> "aux",
                args |-> <<vessel_type, size, engines, operation_mode>>,
                out |-> estimate_auxiliary_power_demand(
                            AuxVessel(vessel_type, size, engines), operation_mode)]
    /\ pc' = "called"
    /\ UNCHANGED <<vessel, vp, heap, refs, vp0, heap0, frame, gas, entry, outcome,
                   evaluated, history>>

NextAux ==
    \E vessel_type \in VESSEL_TYPES, size \in AuxSizes, engines \in AuxEngines,
       operation_mode \in OPERATION_MODES :
          CallAux(vessel_type, size, engines, operation_mode)

\* the calls start from the state before a direct call
SpecAux == InitSfc /\ [][NextAux]_vars

----------------------------------------------------------------------------
(* ceto/ais_adapter.py: guesstimate_vessel_data                            *)
(*                                                                         *)
(* AIS inputs: dims in dm, speed in kn, draft in mm.  Intermediate speeds   *)
(* are in 1e-2 kn, tonnages in 1e-2 t, roots and powers in 1e-4.  The       *)
(* returned vessel_data is in the units of the rest of the model (floor):  *)
(* design_speed 0.1 kn (beam cm), design_draft mm, engine power kW, size 1. *)
(* The sums of the dims and the quotients compared with limits are floats.  *)
(* The strings, the number of engines and the raised exceptions are exact;  *)
(* the floor rounding leaves the size within 1e-4 and the engine power      *)
(* within 2 kW or 0.2 % of the float results.                               *)

\* largest a with a * a <= n, searched in lo..hi
RECURSIVE ISqrtIn(_, _, _)
ISqrtIn(n, lo, hi) ==
    IF lo >= hi THEN lo
    ELSE LET mid == (lo + hi + 1) \div 2
         IN IF mid * mid <= n THEN ISqrtIn(n, mid, hi) ELSE ISqrtIn(n, lo, mid - 1)

\* math.sqrt, for 0 <= n < 2^31
ISqrt(n) == ISqrtIn(n, 0, 46340)

\* x / y ** 4, x in 1e-3 and y in 1e-4, result in 1e-3
DivPow4(x, y) ==
    MulDiv(MulDiv(MulDiv(MulDiv(x, 10000, y), 10000, y), 10000, y), 10000, y)

\* Newton's iteration for the fifth root of x (1e-3), from y (1e-4) above it
RECURSIVE Root5From(_, _)
Root5From(x, y) ==
    LET next(q) == IF q >= y THEN y ELSE Root5From(x, q)
    IN next((4 * y + 10 * DivPow4(x, y)) \div 5)

\* x ** 0.2 in 1e-4, for x in 1e-2 with 0 <= x <= 16^5; a small x is scaled
\* by 32 = 2^5 to keep the digits of the quotient
RECURSIVE Root5(_)
Root5(x) ==
    IF x = 0 THEN 0
    ELSE IF x <= 3276800 THEN Root5(x * 32) \div 2
    ELSE LET n == CHOOSE n \in 1..16 :
                      /\ n * n * n * n * n * 100 >= x
                      /\ \A m \in 1..(n - 1) : m * m * m * m * m * 100 < x
         IN Root5From(x * 10, n * 10000)

\* x ** 0.4 in 1e-4, for x in 1e-2
Pow04(x) == LET square(r) == MulDiv(r, r, 10000) IN square(Root5(x))

\* x ** 0.6 in 1e-4, for x in 1e-2
Pow06(x) == LET cube(r) == MulDiv(MulDiv(r, r, 10000), r, 10000) IN cube(Root5(x))

\* the warning for an unknown code is not part of the state
map_type_of_ship_and_cargo_type_to_ceto_ship_type(type_of_ship_and_cargo_type) ==
    LET code == type_of_ship_and_cargo_type
    IN IF code \in 10..29 THEN "service-other"
       ELSE IF code = 30 THEN "miscellaneous-fishing"
       ELSE IF code \in 31..32 THEN "service-tug"
       ELSE IF code \in 33..35 THEN "service-other"
       ELSE IF code \in 36..39 THEN "yacht"
       ELSE IF code \in 40..49 THEN "ferry-pax"
       ELSE IF code \in 50..59 THEN "service-other"
       ELSE IF code \in 60..69 THEN "ferry-ropax"
       ELSE IF code \in 70..79 THEN "general_cargo"
       ELSE IF code \in 80..83 THEN "oil_tanker"
       ELSE IF code = 84 THEN "liquified_gas_tanker"
       ELSE IF code \in 85..89 THEN "oil_tanker"
       ELSE IF code \in 90..99 THEN "service-other"
       ELSE "service-other"

\* dims in dm; the sums and the quotient are the floats of the code
validate_dims(dim_a, dim_b, dim_c, dim_d) ==
    LET length == F64Add(Decimal(dim_a, 10), Decimal(dim_b, 10))
        beam == F64Add(Decimal(dim_c, 10), Decimal(dim_d, 10))
    IN /\ F64Cmp(Decimal(5, 1), length) <= 0 /\ F64Cmp(length, Decimal(450, 1)) <= 0
       /\ F64Cmp(Decimal(15, 10), beam) <= 0 /\ F64Cmp(beam, Decimal(70, 1)) <= 0
       /\ ~F64QuotientBelow(length, beam, Decimal(2, 1))
       /\ ~F64QuotientAbove(length, beam, Decimal(8, 1))

\* the block coefficient in 1e-2
guesstimate_block_coefficient(ceto_ship_type) ==
    IF ceto_ship_type = "oil_tanker" THEN Ok(85)
    ELSE IF ceto_ship_type \in {"general_cargo", "ferry-ropax"} THEN Ok(75)
    ELSE IF ceto_ship_type = "ferry-pax" THEN Ok(55)
    ELSE IF ceto_ship_type = "yacht" THEN Ok(60)
    ELSE IF ceto_ship_type \in {"service-tug", "service-other"} THEN Ok(65)
    ELSE IF ceto_ship_type = "miscellaneous-fishing" THEN Ok(45)
    ELSE Err("ValueError")

\* ais_draft in mm, beam a float in m, result in mm; the quotient beam / ais_draft
\* is the float of the code
DesignDraftOfBeam(ais_draft, beam) ==
    IF ais_draft = 0 THEN Err("ZeroDivisionError")
    ELSE IF /\ ~F64QuotientBelow(beam, Decimal(ais_draft, 1000), Decimal(225, 100))
            /\ ~F64QuotientAbove(beam, Decimal(ais_draft, 1000), Decimal(375, 100))
         THEN Ok(ais_draft)
    ELSE Ok((F64ToFixed(beam, 10) * 10000) \div 325)

\* ais_draft in mm, beam in dm, result in mm
guesstimate_design_draft(ais_draft, beam) == DesignDraftOfBeam(ais_draft, Decimal(beam, 10))

\* np.interp over two points, clamped outside them (y in 1e-3 for x in 1e-2)
Interp(x, x0, x1, y0, y1) ==
    IF x <= x0 THEN y0
    ELSE IF x >= x1 THEN y1
    ELSE y0 + SDiv((x - x0) * (y1 - y0), x1 - x0)

\* length in dm, speed in kn, result in 1e-2 kn;
\* ms_to_knots(v) = v * 3600 / 1852 = v * 900 / 463
guesstimate_design_speed(length, ceto_ship_type, speed) ==
    LET design(block_coefficient) ==
            IF ~block_coefficient.ok THEN block_coefficient
            ELSE LET froude_number == Interp(block_coefficient.val, 45, 80, 320, 145)
                     design_speed == (froude_number * ISqrt(981 * length * 10) * 90)
                                        \div (463 * block_coefficient.val)
                 IN Ok(IF speed * 100 > design_speed THEN speed * 100
                       ELSE design_speed)
    IN design(guesstimate_block_coefficient(ceto_ship_type))

guesstimate_number_of_engines(ceto_ship_type) ==
    IF ceto_ship_type \in {"ferry-pax", "ferry-ropax"} THEN 2 ELSE 1

\* "tanker" in ceto_ship_type: the ship types of the repository with that word
TankerTypes ==
    {"chemical_tanker", "liquified_gas_tanker", "oil_tanker", "other_liquids_tanker",
     "other_liquids_tankers", "other_liquid_tankers"}

\* dwt in 1e-2 t, design_speed in 1e-2 kn, result in kW
guesstimate_engine_MCR(ceto_ship_type, dwt, design_speed) ==
    LET regression(alpha, dwt_beta, speed_gamma) ==
            MulDiv(MulDiv(dwt_beta, speed_gamma, 10000) \div 10, alpha, 1000) \div 1000
    IN IF ceto_ship_type \in TankerTypes
       THEN regression(2660, Pow06(dwt), Pow06(design_speed))
       ELSE regression(4297, Pow06(dwt), Pow04(design_speed))

guesstimate_engine_type(ceto_ship_type) ==
    IF ceto_ship_type = "liquified_gas_tanker" THEN "LNG-Otto-MS"
    ELSE IF ceto_ship_type \in {"oil_tanker", "general_cargo"} THEN "SSD"
    ELSE IF ceto_ship_type \in {"ferry-pax", "ferry-ropax"} THEN "MSD"
    ELSE "HSD"

guesstimate_engine_fuel_type(ceto_ship_type) ==
    IF ceto_ship_type = "liquified_gas_tanker" THEN "LNG" ELSE "MDO"

\* length * beam * draft in 1e-2 m3, for length and beam in dm and draft in mm
HullBox(length, beam, draft) == MulDiv(length * beam, draft, 1000)

\* 0.3 * (length * beam * design_draft * 1.65), in 1e-2
guesstimate_vessel_size_as_GrossTonnage(length, beam, design_draft) ==
    MulDiv(HullBox(length, beam, design_draft), 495, 1000)

\* in 1e-2 t
guesstimate_vessel_size_as_DeadWeightTonnage(ceto_ship_type, length, beam, draft) ==
    LET dwt(block_coefficient) ==
            IF ~block_coefficient.ok THEN block_coefficient
            ELSE LET displacement ==
                         MulDiv(HullBox(length, beam, draft), block_coefficient.val, 100)
                 IN Ok(IF ceto_ship_type = "oil_tanker"
                       THEN MulDiv(displacement, 83, 100)
                       ELSE IF ceto_ship_type = "liquified_gas_tanker"
                       THEN MulDiv(displacement, 62, 100)
                       ELSE IF ceto_ship_type \in {"ferry-pax", "ferry-ropax"}
                       THEN MulDiv(displacement, 35, 100)
                       ELSE MulDiv(displacement, 70, 100))
    IN dwt(guesstimate_block_coefficient(ceto_ship_type))

guesstimate_vessel_size_as_CubicMetres(length, beam, design_draft) ==
    guesstimate_vessel_size_as_GrossTonnage(length, beam, design_draft)

GrossTonnageTypes ==
    {"ferry-pax", "ferry-ropax", "cruise", "yacht", "miscellaneous-fishing",
     "service-tug", "offshore", "service-other", "miscellaneous-other"}

guesstimate_vessel_data(type_of_ship_and_cargo_type, dim_a, dim_b, dim_c, dim_d, speed, draft) ==
    LET ceto_ship_type ==
            map_type_of_ship_and_cargo_type_to_ceto_ship_type(type_of_ship_and_cargo_type)
        length == dim_a + dim_b
        beam == dim_c + dim_d
        assemble(design_draft, design_speed, dwt) ==
            IF ~design_draft.ok THEN design_draft
            ELSE IF ~design_speed.ok THEN design_speed
            ELSE IF ~dwt.ok THEN dwt
            ELSE LET vessel_size ==
                         IF ceto_ship_type \in GrossTonnageTypes
                         THEN guesstimate_vessel_size_as_GrossTonnage(
                                  length, beam, design_draft.val)
                         ELSE IF ceto_ship_type = "liquified_gas_tanker"
                         THEN guesstimate_vessel_size_as_CubicMetres(
                                  length, beam, design_draft.val)
                         ELSE dwt.val
                 IN Ok([double_ended |-> FALSE,
                        propulsion_engine_age |-> "after_2000",
                        type |-> ceto_ship_type,
                        length |-> length,
                        beam |-> beam * 10,
                        size |-> vessel_size \div 100,
                        design_draft |-> design_draft.val,
                        design_speed |-> design_speed.val \div 10,
                        number_of_propulsion_engines |->
                            guesstimate_number_of_engines(ceto_ship_type),
                        propulsion_engine_power |->
                            guesstimate_engine_MCR(ceto_ship_type, dwt.val,
                                                   design_speed.val),
                        propulsion_engine_type |->
                            guesstimate_engine_type(ceto_ship_type),
                        propulsion_engine_fuel_type |->
                            guesstimate_engine_fuel_type(ceto_ship_type)])
    IN IF ~validate_dims(dim_a, dim_b, dim_c, dim_d) THEN Err("ValueError")
       ELSE assemble(DesignDraftOfBeam(draft, F64Add(Decimal(dim_c, 10),
                                                     Decimal(dim_d, 10))),
                     guesstimate_design_speed(length, ceto_ship_type, speed),
                     guesstimate_vessel_size_as_DeadWeightTonnage(
                         ceto_ship_type, length, beam, draft))

----------------------------------------------------------------------------
(* Direct calls of guesstimate_vessel_data *)

\* one code of every range of the AIS table, and codes outside it
AisCodes == {0, 15, 30, 31, 34, 37, 45, 55, 65, 75, 83, 84, 87, 95, 100}

\* (dim_a, dim_b, dim_c, dim_d) in dm; the last four fail validate_dims, the
\* last one by the float 12.8 + 2.4 = 15.200000000000001 of its length
AisDims ==
    {<<1800, 200, 150, 150>>, <<900, 100, 80, 80>>, <<400, 100, 50, 50>>,
     <<100, 50, 20, 20>>, <<200, 50, 40, 40>>, <<4000, 500, 350, 350>>,
     <<400, 300, 100, 110>>,
     <<30, 10, 10, 10>>, <<900, 100, 30, 30>>, <<100, 50, 50, 50>>,
     <<128, 24, 13, 6>>}

AisSpeeds == {0, 10, 60}

\* in mm; 21.0 / 5.6 is the float 3.7500000000000004
AisDrafts == {0, 1500, 3000, 5600, 6000, 25000}

CallGuesstimate(type_of_ship_and_cargo_type, dims, speed, draft) ==
    /\ pc = "idle"
    /\ call' = [op |-> "guesstimate",
                args |-> <<type_of_ship_and_cargo_type, dims, speed, draft>>,
                out |-> guesstimate_vessel_data(type_of_ship_and_cargo_type,
                            dims[1], dims[2], dims[3], dims[4], speed, draft)]
    /\ pc' = "called"
    /\ UNCHANGED <<vessel, vp, heap, refs, vp0, heap0, frame, gas, entry, outcome,
                   evaluated, history>>

NextAis ==
    \E type_of_ship_and_cargo_type \in AisCodes, dims \in AisDims,
       speed \in AisSpeeds, draft \in AisDrafts :
          CallGuesstimate(type_of_ship_and_cargo_type, dims, speed, draft)

SpecAis == InitSfc /\ [][NextAis]_vars

----------------------------------------------------------------------------
(* Direct calls of estimate_internal_combustion_system *)

\* per-engine powers (kW) around the limits of verify_vessel_data (5, 60000) and
\* of estimate_internal_combustion_engine (50, 2000)
IcePowers == {5, 49, 50, 300, 1000, 2000, 2001, 60000}

\* type and size: auxiliary demand of 5 % of the installed power, of the table
IceTypes == {<<"offshore", NULL>>, <<"bulk_carrier", 20000>>, <<"cruise", 150000>>}

\* vessels the data model accepts, one of them with the optional fuel_capacity
IceVessels ==
    { [BaseVessel EXCEPT !.type = t[1], !.size = t[2], !.propulsion_engine_power = p] :
          t \in IceTypes, p \in IcePowers }
    \cup { [fuel_capacity |-> 5000] @@ BaseVessel }

InitIce ==
    /\ vessel \in IceVessels
    /\ \E p \in VoyageProfiles : vp = p.d /\ heap = p.h
    /\ refs = REFERENCE_KEYS
    /\ vp0 = vp
    /\ heap0 = heap
    /\ pc = "idle"
    /\ frame = NoFrame
    /\ gas = Err("none")
    /\ entry = "none"
    /\ outcome = Err("none")
    /\ evaluated = {}
    /\ history = <<>>
    /\ call = NoCall

\* estimate_internal_combustion_system(vessel_data, voyage_profile)
CallIce ==
    /\ pc = "idle"
    /\ call' = [op |-> "ice", args |-> <<>>,
                out |-> estimate_internal_combustion_system(vessel, View(vp, heap))]
    /\ pc' = "called"
    /\ UNCHANGED <<vessel, vp, heap, refs, vp0, heap0, frame, gas, entry, outcome,
                   evaluated, history>>

NextIce == CallIce

SpecIce == InitIce /\ [][NextIce]_vars

----------------------------------------------------------------------------
(* Direct calls of estimate_propulsion_engine_load *)

\* size arguments: None and the sizes around the thresholds of the weather and
\* speed-power factors
LoadSizes == {NULL, 0, 999, 1000, 1999, 2000, 4999, 5000, 9999, 10000, 14500, 14501}

\* speed arguments in kn: the ends of the range, values inside, one beyond it
LoadSpeeds == {0, 5, 10, 50, 51}

\* draft arguments in mm: the ends of the range, values inside (at 9787 mm and the
\* design speed the load is 1.500034), one beyond each end
LoadDrafts == {99, 100, 7000, 9787, 25000, 25001}

\* design speeds in 0.1 kn
LoadDesignSpeeds == {0, 100}

LoadVessel(vessel_type, size, design_speed) ==
    [BaseVessel EXCEPT !.type = vessel_type, !.size = size,
                       !.design_speed = design_speed]

CallLoad(vessel_type, size, design_speed, speed, draft) ==
    /\ pc = "idle"
    /\ call' = [op |-> "load",
                args |-> <<vessel_type, size, design_speed, speed, draft>>,
                out |-> estimate_propulsion_engine_load(
                            speed, draft, LoadVessel(vessel_type, size, design_speed),
                            NULL)]
    /\ pc' = "called"
    /\ UNCHANGED <<vessel, vp, heap, refs, vp0, heap0, frame, gas, entry, outcome,
                   evaluated, history>>

NextLoad ==
    \E vessel_type \in VESSEL_TYPES, size \in LoadSizes,
       design_speed \in LoadDesignSpeeds, speed \in LoadSpeeds, draft \in LoadDrafts :
          CallLoad(vessel_type, size, design_speed, speed, draft)

SpecLoad == InitSfc /\ [][NextLoad]_vars

----------------------------------------------------------------------------
(* Properties of the solver *)

\* a call of the solver has ended: it returned or an exception left it
Finished == pc = "done"

\* the call ended with an exception of the validation or of a sub-model (the
\* combustion baseline, the energy aggregator, the estimator)
Rejected == ~outcome.ok /\ outcome.by \in {"verify", "ice", "energy", "estimator"}

\* the offshore vessel on the 10 kn voyage, with every reference value
ExampleInput ==
    /\ vessel = BaseVessel
    /\ vp0 = BaseProfile.d
    /\ heap0 = BaseProfile.h
    /\ refs = REFERENCE_KEYS

\* the estimates a normal return hands to the caller
Estimates == IF entry = "suggest" THEN {outcome.val.gas, outcome.val.battery}
             ELSE {outcome.val.estimate}

\* total weight of the combustion baseline of the caller's original profile
BaselineWeight ==
    estimate_internal_combustion_system(vessel, View(vp0, heap0)).val.total_weight_kg

\* battery_o and gas_o of the test: the estimator applied once to the energy
\* estimate of the original profile; the estimate is the tuple returned by
\* estimate_energy_consumption, and subscripting it with a key raises TypeError
OneShot(strategy) ==
    LET estimate(total_kwh, maximum_kw) ==
            IF ~total_kwh.ok THEN total_kwh
            ELSE IF ~maximum_kw.ok THEN maximum_kw
            ELSE Estimator(strategy, total_kwh.val, maximum_kw.val,
                           vessel["number_of_propulsion_engines"],
                           vessel["double_ended"], refs)
        items(energy) ==
            IF ~energy.ok THEN energy
            ELSE estimate(GetItem(energy.val, "total_kwh"),
                          GetItem(energy.val, "maximum_required_total_power_kw"))
    IN items(estimate_energy_consumption(vessel, View(vp0, heap0), FALSE, FALSE,
                                         ITERATE_DELTA_W))

\* The caller's voyage_profile dict holds the values it held before the call
\* and every list object the caller had holds the legs it held before the call.
\* Every call ends in its first pass, before the statements of lines 604 - 611
\* that bind the leg keys of the copy, so no behaviour puts the copy to the test.
CallerProfileUnchanged ==
    /\ vp = vp0
    /\ Len(heap) >= Len(heap0)
    /\ \A ref \in 1..Len(heap0) : heap[ref] = heap0[ref]

\* C2: a call that no validation or sub-model exception ends returns normally,
\* after at most MAX_ITERATIONS passes of the loop.
C2_TerminatesAndReturns ==
    (Finished /\ ~Rejected) => (outcome.ok /\ outcome.bodies <= MAX_ITERATIONS)

\* C3: a call that no validation or sub-model exception ends returns estimates
\* whose change_in_draft_m is the draft change of the weight difference to the
\* combustion baseline of the original profile.
C3_DraftChangeAgainstBaseline ==
    (Finished /\ ~Rejected) =>
        /\ outcome.ok
        /\ \A e \in Estimates :
              e.change_in_draft_m =
                  estimate_change_in_draft(vessel, e.total_weight_kg - BaselineWeight).val

\* C4: two calls of suggest_alternative_energy_systems on the same input
\* objects, neither ended by a validation or sub-model exception, return the
\* same pair of estimates.
C4_SameEstimatesTwice ==
    (/\ Finished
     /\ Len(history) = 2
     /\ \A i \in 1..2 : /\ history[i].entry = "suggest"
                        /\ (history[i].ok \/ history[i].by = "solver"))
    => /\ history[1].ok
       /\ history[2].ok
       /\ history[1].val = history[2].val

\* C5: suggest_alternative_energy_systems, when no validation or sub-model
\* exception ends it, returns for each strategy the weight of the one-shot
\* estimate exactly when the returned draft change is below the tolerance.
C5_OneShotIffWithinTolerance ==
    (Finished /\ entry = "suggest" /\ ~Rejected) =>
        /\ outcome.ok
        /\ \A strategy \in {"gas", "battery"} :
              WithinDraftTolerance(outcome.val[strategy].change_in_draft_m, vessel)
              <=> (/\ OneShot(strategy).ok
                   /\ outcome.val[strategy].total_weight_kg
                          = OneShot(strategy).val.total_weight_kg)

\* C6: for the offshore vessel on the 10 kn voyage suggest_alternative_energy_systems
\* returns two estimates of positive weight, both different from the weight of
\* the combustion baseline.
C6_ExampleReturnsEstimates ==
    (Finished /\ entry = "suggest" /\ ExampleInput) =>
        /\ outcome.ok
        /\ \A e \in Estimates : e.total_weight_kg > 0 /\ e.total_weight_kg # BaselineWeight

\* a valid vessel and a voyage with positive times and at least one leg of
\* non-zero speed in each moving mode
FuelInputValid ==
    /\ verify_vessel_data(vessel) = "ok"
    /\ verify_voyage_profile(vp) = "ok"
    /\ vp.time_at_berth.v > 0
    /\ vp.time_anchored.v > 0
    /\ \A k \in {"legs_manoeuvring", "legs_at_sea"} :
          /\ heap[vp[k].ref] # <<>>
          /\ \A i \in 1..Len(heap[vp[k].ref]) : heap[vp[k].ref][i][2] > 0

\* C7: estimate_fuel_consumption for the offshore vessel on the 10 kn voyage, whatever
\* the flags, returns a breakdown whose total_kg is positive and is the sum of
\* the sub_total_kg of the four modes.
C7_FuelTotalIsSumOfModes ==
    (call.op = "fuel" /\ ExampleInput /\ FuelInputValid) =>
        /\ call.out.ok
        /\ call.out.val.total_kg > 0
        /\ call.out.val.total_kg =
              call.out.val.at_berth.sub_total_kg + call.out.val.anchored.sub_total_kg
              + call.out.val.manoeuvring.sub_total_kg + call.out.val.at_sea.sub_total_kg

\* the caller's input breaks a rule of the data model
ViolatesDataModel ==
    \/ verify_vessel_data(vessel) # "ok"
    \/ verify_voyage_profile(vp0) # "ok"
    \/ \E k \in {"legs_manoeuvring", "legs_at_sea"} :
          \E i \in 1..Len(heap0[vp0[k].ref]) : heap0[vp0[k].ref][i][2] = 0

\* C8: suggest_alternative_energy_systems ends a call on an input that breaks a
\* rule of the data model with a validation error, having evaluated neither the
\* combustion baseline nor the energy aggregator nor an estimator.
C8_RejectedBeforeComputation ==
    (Finished /\ entry = "suggest" /\ ViolatesDataModel) =>
        /\ ~outcome.ok
        /\ outcome.by = "verify"
        /\ evaluated = {}

\* C9: an estimator called with a bundle that lacks a key it requires raises
\* and gives no estimate; suggest_alternative_energy_systems called with a
\* bundle that lacks a reference key raises before the baseline is computed and
\* before the first pass of the loop.
C9_MissingKeyRejected ==
    /\ (call.op = "battery" /\ ~(BATTERY_KEYS \subseteq refs))
          => call.out = Err("TypeError")
    /\ (call.op = "gas" /\ ~(GAS_KEYS \subseteq refs))
          => call.out = Err("TypeError")
    /\ (Finished /\ entry = "suggest" /\ ~(REFERENCE_KEYS \subseteq refs))
          => /\ ~outcome.ok
             /\ outcome.by = "verify"
             /\ outcome.bodies = 0
             /\ evaluated = {}

\* the battery estimator was called without the depth of discharge and raised
C9_Witness ==
    /\ call.op = "battery"
    /\ "battery_depth_of_discharge_per" \notin refs
    /\ ~call.out.ok

\* C10: for a fuel type and an engine age of the closed sets and a load in
\* range, estimate_specific_fuel_consumption returns a value exactly when the
\* table holds the triple, and raises the error of the failed lookup otherwise.
C10_ValueIffTabulated ==
    (/\ call.op = "sfc"
     /\ call.args[1] \in 0..MAX_ENGINE_LOAD
     /\ call.args[3] \in FUEL_TYPES
     /\ call.args[4] \in ENGINE_AGES)
    => /\ call.out.ok <=> HasBaseline(call.args[2], call.args[3], call.args[4])
       /\ ~call.out.ok => call.out = Err("ValueError")

\* methanol is not tabulated for high-speed diesels: the call raised
C10_Witness ==
    /\ call.op = "sfc"
    /\ call.args = <<10000, "HSD", "MeOH", "after_2001">>
    /\ ~call.out.ok

----------------------------------------------------------------------------
(* Properties of the aggregators *)

\* the legs of a mode of the voyage profile handed to the call
LegsOf(key) == heap[vp[key].ref]

\* some leg of the voyage profile is sailed at speed 0
HasZeroSpeedLeg ==
    \E key \in {"legs_manoeuvring", "legs_at_sea"} :
       \E i \in 1..Len(LegsOf(key)) : LegsOf(key)[i][2] = 0

\* a direct call of one of the two aggregators has ended
AggregatorCalled == pc = "called" /\ call.op \in {"fuel", "energy"}

\* C11: a call of estimate_fuel_consumption or estimate_energy_consumption on a
\* voyage profile with a leg of speed 0 ends with the dedicated computation
\* error (ComputationError) and returns no result: it never ends with the
\* ZeroDivisionError of the division distance / speed.
C11_ZeroSpeedComputationError ==
    (AggregatorCalled /\ HasZeroSpeedLeg)
        => (~call.out.ok /\ call.out.err = "ComputationError")

\* a mode of the voyage profile has no legs
HasEmptyLegList ==
    \E key \in {"legs_manoeuvring", "legs_at_sea"} : LegsOf(key) = <<>>

\* C12: a call of estimate_energy_consumption on a voyage profile whose
\* legs_manoeuvring or legs_at_sea is empty ends with an input error that names
\* the empty leg list (InputError), not with the failure of max() over the empty
\* list of propulsion powers, and returns no estimate.
C12_EmptyLegsInputError ==
    (AggregatorCalled /\ call.op = "energy" /\ HasEmptyLegList)
        => (~call.out.ok /\ call.out.err = "InputError")

\* the propulsion engine load of a leg of the vessel, for a delta_w argument
LoadOfLeg(leg, delta_w) == estimate_propulsion_engine_load(leg[2], leg[3], vessel, delta_w)

\* some leg of the voyage profile has a propulsion engine load above 1.5
HasOverloadedLeg ==
    \E key \in {"legs_manoeuvring", "legs_at_sea"} :
       \E i \in 1..Len(LegsOf(key)) :
          /\ LoadOfLeg(LegsOf(key)[i], call.args[3]).ok
          /\ LoadOfLeg(LegsOf(key)[i], call.args[3]).val > MAX_ENGINE_LOAD

\* C13: estimate_fuel_consumption clamps the load of a leg to [0, 1.5] before
\* the SFC lookup: a call on a voyage profile with legs of non-zero speed in
\* both modes, one of them with a computed load above 1.5, returns a result and
\* does not end with the range error of the SFC function.
C13_LoadClampedBeforeSfc ==
    (AggregatorCalled /\ call.op = "fuel" /\ HasOverloadedLeg
        /\ ~HasZeroSpeedLeg /\ ~HasEmptyLegList)
        => call.out.ok

----------------------------------------------------------------------------
(* Properties of estimate_auxiliary_power_demand *)

\* a direct call of estimate_auxiliary_power_demand has ended
AuxCalled == pc = "called" /\ call.op = "aux"

\* the vessel_data of the call passes verify_vessel_data
AuxArgsValid ==
    verify_vessel_data(AuxVessel(call.args[1], call.args[2], call.args[3])) = "ok"

\* installed propulsion power of the call, in kW
AuxInstalledPower == call.args[3][1] * call.args[3][2]

\* the entry of Table 17 for the call's vessel type, size and operation mode, in
\* dkW: which = 1 for the boiler, 2 for the auxiliary engine
Tabulated(which) ==
    auxiliary_power_outputs[call.args[1]]
        [RowIndex(call.args[1], IF call.args[2] = NULL THEN 0 ELSE call.args[2]) + 1]
        [column_indexes[call.args[4]][which] + 1] * 10

\* C14: for every vessel type, size and operation mode the data model accepts,
\* estimate_auxiliary_power_demand returns (0, 0) when the installed propulsion
\* power P is below 150 kW, (0.05 * P, tabulated boiler power) when
\* 150 <= P < 500, and the two tabulated powers when P >= 500.
C14_ThreeRegimes ==
    (AuxCalled /\ AuxArgsValid) =>
        /\ call.out.ok
        /\ IF AuxInstalledPower < AUX_ZERO_BELOW_KW
           THEN call.out.val = [aux |-> 0, boiler |-> 0]
           ELSE IF AuxInstalledPower < AUX_TABLE_FROM_KW
           THEN /\ call.out.val.aux = (AuxInstalledPower * 10) \div 20
                /\ call.out.val.boiler = Tabulated(1)
           ELSE /\ call.out.val.aux = Tabulated(2)
                /\ call.out.val.boiler = Tabulated(1)

\* the size bucket (row of Table 17) of a vessel type and size
SizeBucket(vessel_type, size) == RowIndex(vessel_type, IF size = NULL THEN 0 ELSE size)

\* the demand of the call's vessel with another size
AuxDemandAtSize(size) ==
    estimate_auxiliary_power_demand(AuxVessel(call.args[1], size, call.args[3]),
                                    call.args[4])

\* C15: for every vessel type and operation mode the data model accepts, with
\* an installed propulsion power of at least 500 kW, the auxiliary engine power
\* returned for a vessel is not larger than the one returned for a vessel of
\* the same type in a larger size bucket; and with less than 150 kW installed
\* the auxiliary engine power returned is 0.
C15_AuxDemandMonotoneInSize ==
    (AuxCalled /\ AuxArgsValid) =>
        /\ AuxInstalledPower >= AUX_TABLE_FROM_KW =>
              /\ call.out.ok
              /\ \A size \in AuxSizes :
                    (/\ verify_vessel_data(
                            AuxVessel(call.args[1], size, call.args[3])) = "ok"
                     /\ SizeBucket(call.args[1], size)
                            >= SizeBucket(call.args[1], call.args[2]))
                    => /\ AuxDemandAtSize(size).ok
                       /\ AuxDemandAtSize(size).val.aux >= call.out.val.aux
        /\ AuxInstalledPower < AUX_ZERO_BELOW_KW =>
              (call.out.ok /\ call.out.val.aux = 0)

\* the mode of a leg list
ModeOf(key) == IF key = "legs_manoeuvring" THEN "manoeuvring" ELSE "at_sea"

\* the propulsion energy the call returned for leg i of a mode, in Wh
PropulsionEnergyOfLeg(key, i) ==
    call.out.val.items[3][ModeOf(key)].propulsion_engine.energy[i]

\* the load of leg i of a list is exactly the 7 % limit, for a delta_w argument:
\* the code computes a load and LoadAgainst finds it on the limit, not beside it
LegAtLimit(key, i, delta_w) ==
    /\ LoadOfLeg(LegsOf(key)[i], delta_w).ok
    /\ LoadAgainst(LOAD_LIMIT_7_PERCENT, LegsOf(key)[i][2], LegsOf(key)[i][3],
                   vessel["design_draft"], vessel["design_speed"],
                   SpeedPowerFactor(vessel["type"], vessel["size"], delta_w),
                   WeatherFactor(vessel["type"], vessel["size"]).val) = 0

\* C16: in a result of estimate_energy_consumption, a leg whose propulsion
\* engine load is exactly 0.07 has propulsion energy 0 when limit_7_percent is
\* True and a strictly positive propulsion energy when it is False; in a result
\* of estimate_fuel_consumption a mode whose legs are all at exactly 0.07 has
\* propulsion fuel 0 when limit_7_percent is True.
C16_LimitLoadContributesZero ==
    (AggregatorCalled /\ call.out.ok) =>
        \A key \in {"legs_manoeuvring", "legs_at_sea"} :
           /\ call.op = "energy" =>
                 \A i \in 1..Len(LegsOf(key)) :
                    LegAtLimit(key, i, call.args[3]) =>
                       IF call.args[2] THEN PropulsionEnergyOfLeg(key, i) = 0
                       ELSE PropulsionEnergyOfLeg(key, i) > 0
           /\ (/\ call.op = "fuel"
               /\ call.args[2]
               /\ \A i \in 1..Len(LegsOf(key)) : LegAtLimit(key, i, call.args[3]))
                 => IF key = "legs_manoeuvring"
                    THEN call.out.val.manoeuvring.propulsion_engine = 0
                    ELSE call.out.val.at_sea.propulsion_engine_kg = 0

\* the power demand of a mode in the call's result, in dkW: auxiliary engines,
\* boilers when they are included, and the largest propulsion power of a leg
ModeDemand(mode) ==
    estimate_auxiliary_power_demand(vessel, mode).val.aux
    + (IF call.args[1] THEN estimate_auxiliary_power_demand(vessel, mode).val.boiler
       ELSE 0)
    + (IF mode \in {"manoeuvring", "at_sea"}
       THEN MaxSeq(call.out.val.items[3][mode].propulsion_engine.power)
       ELSE 0)

\* a call of estimate_energy_consumption has returned
EnergyReturned == AggregatorCalled /\ call.op = "energy" /\ call.out.ok

\* C17: the maximum power demand returned by estimate_energy_consumption is the
\* demand of one of the four operation modes and no mode demands more: it is
\* the maximum over the modes of auxiliary engine power + boiler power (when
\* steam boilers are included) + largest propulsion power of a leg of the mode.
C17_MaximumPowerIsMaxOverModes ==
    EnergyReturned =>
        /\ \E mode \in OPERATION_MODES : call.out.val.items[2] = ModeDemand(mode)
        /\ \A mode \in OPERATION_MODES : call.out.val.items[2] >= ModeDemand(mode)

\* a result with steam boilers included whose maximum is the demand while
\* manoeuvring, larger than the demand of every other mode, each of them positive
C17_Witness ==
    /\ EnergyReturned
    /\ call.args[1]
    /\ estimate_auxiliary_power_demand(vessel, "manoeuvring").val.boiler > 0
    /\ call.out.val.items[2] = ModeDemand("manoeuvring")
    /\ \A mode \in OPERATION_MODES \ {"manoeuvring"} :
          ModeDemand(mode) > 0 /\ ModeDemand(mode) < call.out.val.items[2]

----------------------------------------------------------------------------
(* Properties of the estimators *)

\* a direct call of an estimator has returned an estimate
EstimatorReturned == pc = "called" /\ call.op \in {"gas", "battery"} /\ call.out.ok

\* power rounded up to the next multiple of 10 kW, in dkW
RoundUpTo10kW(numerator, denominator) == CeilDiv(numerator, denominator * 100) * 100

\* C18: both estimators return a power per electrical engine of
\* required_power / number_of_propulsion_engines, halved when the vessel is
\* double-ended, rounded up to the next multiple of 10 kW; so a double-ended
\* vessel gets no larger engines than the same vessel not double-ended.
C18_MotorPowerHalvedWhenDoubleEnded ==
    EstimatorReturned =>
        /\ call.out.val.power_per_engine_kw =
              IF call.args[4] THEN RoundUpTo10kW(call.args[2], 2 * call.args[3])
              ELSE RoundUpTo10kW(call.args[2], call.args[3])
        /\ call.args[4] =>
              call.out.val.power_per_engine_kw
                 <= Estimator(call.op, call.args[1], call.args[2], call.args[3],
                              FALSE, refs).val.power_per_engine_kw

----------------------------------------------------------------------------
(* Properties of the AIS adapter *)

\* a direct call of guesstimate_vessel_data has returned a vessel_data
GuesstimateReturned == pc = "called" /\ call.op = "guesstimate" /\ call.out.ok

\* C19: every vessel_data returned by guesstimate_vessel_data is accepted by
\* verify_vessel_data: its type is in VESSEL_TYPES, its propulsion_engine_age
\* in ENGINE_AGES, its engine type and fuel type in their closed sets, and
\* its number of propulsion engines is 1 or 2.
C19_AdapterOutputAccepted ==
    GuesstimateReturned =>
        /\ verify_vessel_data(call.out.val) = "ok"
        /\ call.out.val.type \in VESSEL_TYPES
        /\ call.out.val.propulsion_engine_age \in ENGINE_AGES
        /\ call.out.val.propulsion_engine_type \in ENGINE_TYPES
        /\ call.out.val.propulsion_engine_fuel_type \in FUEL_TYPES
        /\ call.out.val.number_of_propulsion_engines \in {1, 2}

\* the legs the name voyage_profile_copy holds under a key
CopyLegs(f, h, key) == View(f.copy, h)[key]

\* a pass of the while loop begins on verified input and the aggregator returns
PassBegins ==
    /\ pc = "loop"
    /\ verify_vessel_data(vessel) = "ok"
    /\ verify_voyage_profile(vp) = "ok"
    /\ verify_reference_values(refs) = "ok"
    /\ estimate_energy_consumption(vessel, View(frame.copy, heap), FALSE, FALSE,
                                   ITERATE_DELTA_W).ok

\* the pass left the loop with a new system whose draft change against the
\* reference weight is below 1 % of the design draft, and changed no leg
PassStopped ==
    /\ \/ pc' = "init" /\ gas'.ok
       \/ pc' = "done" /\ outcome'.ok
    /\ heap' = heap
    /\ vp' = vp
    /\ LET new_weight == IF pc' = "init" THEN gas'.val.total_weight_kg
                         ELSE IF entry = "suggest"
                         THEN outcome'.val.battery.total_weight_kg
                         ELSE outcome'.val.estimate.total_weight_kg
       IN WithinDraftTolerance(
              estimate_change_in_draft(vessel, new_weight - frame.weight).val, vessel)

\* the pass added the draft change of the new weight against the reference
\* weight to every leg of both lists of the copy, and made the new weight the
\* reference weight
PassContinued ==
    /\ pc' = "loop"
    /\ frame'.iteration = frame.iteration + 1
    /\ frame'.strategy = frame.strategy
    /\ LET change_draft ==
               estimate_change_in_draft(vessel, frame'.weight - frame.weight).val
       IN /\ ~WithinDraftTolerance(change_draft, vessel)
          /\ \A key \in {"legs_manoeuvring", "legs_at_sea"} :
                CopyLegs(frame', heap', key)
                   = AdjustLegs(CopyLegs(frame, heap, key), change_draft)

\* C20: each pass of the loop of _iterate_energy_system computes the draft change
\* of (weight of the newly sized system - reference weight); below 1 % of the
\* design draft the loop stops and no leg is changed, otherwise the change is
\* added to the draft of every leg of both lists of the copy (distances, speeds,
\* number and order of legs unchanged), the reference weight becomes the new
\* weight and the loop continues.
C20_PassAdjustsDraftsOrStops ==
    [][PassBegins => (PassStopped \/ PassContinued)]_vars

----------------------------------------------------------------------------
(* Properties of estimate_specific_fuel_consumption *)

\* a direct call with methanol, a load in range and an engine age of the set
MethanolCall ==
    /\ pc = "called" /\ call.op = "sfc"
    /\ call.args[3] = "MeOH"
    /\ call.args[1] \in 0..MAX_ENGINE_LOAD
    /\ call.args[4] \in ENGINE_AGES

\* C21, as the code has it: with methanol the call returns a value exactly for
\* the slow-speed and the medium-speed diesel (SSD, MSD) of age after_2001, and
\* raises the error of the failed lookup for every other engine type and age.
C21_MethanolSlowAndMediumSpeed ==
    MethanolCall =>
        /\ call.out.ok <=> (call.args[2] \in {"SSD", "MSD"} /\ call.args[4] = "after_2001")
        /\ ~call.out.ok => call.out = Err("ValueError")

\* a medium-speed diesel of age after_2001 on methanol got a value
C21_Witness ==
    /\ MethanolCall
    /\ call.args[2] = "MSD"
    /\ call.args[4] = "after_2001"
    /\ call.out.ok

\* C21, as stated: with methanol the call returns a value if and only if the
\* engine type is SSD and the age is after_2001.
C21_MethanolSlowSpeedOnly ==
    MethanolCall =>
        /\ call.out.ok <=> (call.args[2] = "SSD" /\ call.args[4] = "after_2001")
        /\ ~call.out.ok => call.out = Err("ValueError")

\* a direct call of estimate_specific_fuel_consumption has returned a value
SfcReturned == pc = "called" /\ call.op = "sfc" /\ call.out.ok

\* C22: for gas_turbine, steam_turbine, steam_boiler and auxiliary_engine the
\* result is baseline / 1000 kg/kWh whatever the load, so any two loads in
\* [0, 1.5] give the same result; for every other engine type it is
\* baseline * (0.455 * load^2 - 0.710 * load + 1.280) / 1000, which is
\* 1.280 * baseline / 1000 at load 0 and 1.025 * baseline / 1000 at load 1.
C22_LoadIndependentOrQuadratic ==
    SfcReturned =>
        LET engine_load == call.args[1]
            sfc_baseline == sfc_baselines[call.args[2]][call.args[3]][call.args[4]]
        IN IF call.args[2] \in {"gas_turbine", "steam_turbine", "steam_boiler",
                                "auxiliary_engine"}
           THEN /\ call.out.val = sfc_baseline * 10
                /\ \A other \in SfcLoads \cap 0..MAX_ENGINE_LOAD :
                      estimate_specific_fuel_consumption(
                          other, call.args[2], call.args[3], call.args[4]) = call.out
           ELSE /\ call.out.val = (sfc_baseline * SfcPolynomial(engine_load)) \div 1000
                /\ engine_load = 0 => call.out.val = (sfc_baseline * 1280) \div 100
                /\ engine_load = 10000 => call.out.val = (sfc_baseline * 1025) \div 100

\* an auxiliary engine at half load got its baseline of 185 g/kWh
C22_Witness ==
    /\ SfcReturned
    /\ call.args = <<5000, "auxiliary_engine", "MDO", "after_2001">>
    /\ call.out.val = 1850

\* the 0-based position, in the bound list of a vessel type, of the largest
\* bound not exceeding size
PairedRow(vessel_type, size) ==
    LET bounds == vessel_sizes[vessel_type]
        s == IF size = NULL THEN 0 ELSE size
    IN (CHOOSE i \in 1..Len(bounds) :
           /\ bounds[i] <= s
           /\ \A j \in 1..Len(bounds) : bounds[j] <= s => bounds[j] <= bounds[i]) - 1

\* C23: for every vessel type of the table and every size the data model
\* accepts, the powers read from the table come from the row paired with the
\* largest size bound of the type not exceeding the size (0 for a null size),
\* also where the bound list is not ascending.
C23_RowOfLargestBoundNotExceedingSize ==
    (/\ AuxCalled /\ AuxArgsValid
     /\ call.args[1] \in DOMAIN vessel_sizes
     /\ call.args[1] \in DOMAIN auxiliary_power_outputs
     /\ AuxInstalledPower >= AUX_TABLE_FROM_KW)
    => /\ call.out.ok
       /\ \E aux \in {TableCell(call.args[1], PairedRow(call.args[1], call.args[2]),
                                column_indexes[call.args[4]][2])},
             boiler \in {TableCell(call.args[1], PairedRow(call.args[1], call.args[2]),
                                   column_indexes[call.args[4]][1])} :
             /\ aux.ok /\ call.out.val.aux = aux.val
             /\ boiler.ok /\ call.out.val.boiler = boiler.val

\* the propulsion power the call returned for leg i of a mode, in dkW
PropulsionPowerOfLeg(key, i) ==
    call.out.val.items[3][ModeOf(key)].propulsion_engine.power[i]

\* the 7 % rule is on in the call and the load of leg i is below 0.07
LegZeroed(key, i) ==
    call.args[2] /\ LoadOfLeg(LegsOf(key)[i], call.args[3]).val < LOAD_LIMIT_7_PERCENT

\* C24: in a result of estimate_energy_consumption the propulsion energy and
\* power lists of both modes have one entry per leg, in leg order; the entries
\* of a leg are 0 when limit_7_percent is True and the leg's load is below 0.07,
\* and installed_power * load * (distance / speed) and installed_power * load
\* otherwise, so no leg is zeroed when limit_7_percent is False.
C24_LegContributions ==
    EnergyReturned =>
        \A key \in {"legs_manoeuvring", "legs_at_sea"} :
           /\ Len(call.out.val.items[3][ModeOf(key)].propulsion_engine.energy)
                 = Len(LegsOf(key))
           /\ Len(call.out.val.items[3][ModeOf(key)].propulsion_engine.power)
                 = Len(LegsOf(key))
           /\ \A i \in 1..Len(LegsOf(key)) :
                 LET leg == LegsOf(key)[i]
                     power == (vessel["number_of_propulsion_engines"]
                               * vessel["propulsion_engine_power"]
                               * LoadOfLeg(leg, call.args[3]).val) \div 1000
                 IN IF LegZeroed(key, i)
                    THEN /\ PropulsionEnergyOfLeg(key, i) = 0
                         /\ PropulsionPowerOfLeg(key, i) = 0
                    ELSE /\ PropulsionEnergyOfLeg(key, i)
                               = power * ((leg[1] * 100) \div leg[2])
                         /\ PropulsionPowerOfLeg(key, i) = power

\* the 7 % rule was off and a leg with a load below 0.07 kept its energy and power
C24_Witness ==
    /\ EnergyReturned
    /\ ~call.args[2]
    /\ \E key \in {"legs_manoeuvring", "legs_at_sea"} :
          \E i \in 1..Len(LegsOf(key)) :
             /\ LoadOfLeg(LegsOf(key)[i], call.args[3]).val < LOAD_LIMIT_7_PERCENT
             /\ PropulsionEnergyOfLeg(key, i) > 0
             /\ PropulsionPowerOfLeg(key, i) > 0

\* C25: for every vessel type, size and installed power the data model accepts
\* and every operation mode, estimate_auxiliary_power_demand returns a pair
\* (auxiliary engine power, boiler power) and raises nothing.
C25_AuxDemandTotal ==
    (AuxCalled /\ AuxArgsValid) =>
        /\ call.out.ok
        /\ DOMAIN call.out.val = {"aux", "boiler"}

----------------------------------------------------------------------------
(* Properties of estimate_propulsion_engine_load *)

\* a direct call on a vessel the data model accepts, with a speed in [0, 50] kn
\* and a draft in [0.1, 25] m
LoadCallValid ==
    /\ pc = "called" /\ call.op = "load"
    /\ verify_vessel_data(LoadVessel(call.args[1], call.args[2], call.args[3])) = "ok"
    /\ call.args[4] \in 0..MAX_VESSEL_SPEED_KN
    /\ call.args[5] \in MIN_VESSEL_DRAFT..MAX_VESSEL_DRAFT_M

\* C26: for every vessel the data model accepts, of every vessel type, and every
\* speed and draft in range, estimate_propulsion_engine_load returns a load: a
\* weather correction factor is selected for the type and no null size is
\* compared.
C26_LoadForEveryVesselType ==
    LoadCallValid =>
        /\ WeatherFactor(call.args[1], call.args[2]).ok
        /\ call.out.ok

----------------------------------------------------------------------------
(* Properties of estimate_internal_combustion_system *)

IceCalled == pc = "called" /\ call.op = "ice"

\* C27: for every vessel that verify_vessel_data accepts (per-engine power
\* within [5, 60000] kW, any auxiliary demand of the table or of the 5 % rule,
\* with or without the optional fuel_capacity key) and every valid voyage,
\* estimate_internal_combustion_system returns its estimate: the sizing of the
\* engines raises no range error and fuel_capacity does not make the call fail.
C27_CombustionSystemDefined ==
    (/\ IceCalled
     /\ verify_vessel_data(vessel) = "ok"
     /\ verify_voyage_profile(vp) = "ok") => call.out.ok

----------------------------------------------------------------------------
(* Properties of the drafts of the copy at the start of a pass *)

\* a pass of the while loop is about to begin
LoopStart == pc = "loop"

\* the legs of the caller's original profile and of voyage_profile_copy
OriginalLegs(key) == View(vp0, heap0)[key]
CopiedLegs(key) == CopyLegs(frame, heap, key)

LEG_KEYS == {"legs_manoeuvring", "legs_at_sea"}

\* the draft of a leg is one estimate_propulsion_engine_load accepts
DraftInRange(leg) == leg[3] \in MIN_VESSEL_DRAFT..MAX_VESSEL_DRAFT_M

AllDraftsInRange(legs) == \A i \in 1..Len(legs) : DraftInRange(legs[i])

\* every pass that begins is the first pass of its call: the read of
\* energy["total_kwh"] ends the first pass with TypeError
LoopStartsAtFirstPass == LoopStart => frame.iteration = 0

\* at the start of every pass the drafts of the copy are within [0.1, 25] m
\* when the drafts of the original profile are
LoopDraftsInRange ==
    (LoopStart /\ \A key \in LEG_KEYS : AllDraftsInRange(OriginalLegs(key)))
    => \A key \in LEG_KEYS : AllDraftsInRange(CopiedLegs(key))

\* at the start of every pass the legs of the copy are the original legs with
\* the draft change of (reference weight - baseline weight) added
LoopDraftsTelescoped ==
    (LoopStart /\ DRAFT_KEYS \subseteq DOMAIN vessel)
    => \A key \in LEG_KEYS :
          CopiedLegs(key)
             = AdjustLegs(OriginalLegs(key),
                          estimate_change_in_draft(vessel, frame.weight - frame.ice).val)

----------------------------------------------------------------------------
(* Properties of the steam boiler entries of estimate_energy_consumption *)

\* the time spent in an operation mode, in ch
ModeTime(mode) ==
    CASE mode = "at_berth" -> View(vp, heap)["time_at_berth"]
      [] mode = "anchored" -> View(vp, heap)["time_anchored"]
      [] mode = "manoeuvring" -> TotalTime(View(vp, heap)["legs_manoeuvring"]).val
      [] mode = "at_sea" -> TotalTime(View(vp, heap)["legs_at_sea"]).val

\* the boiler power estimate_auxiliary_power_demand returns for a mode
BoilerPower(mode) == estimate_auxiliary_power_demand(vessel, mode).val.boiler

\* the total energy of the same call with include_steam_boilers=False
TotalWithoutBoilers ==
    estimate_energy_consumption(vessel, View(vp, heap), FALSE, call.args[2],
                                call.args[3]).val.items[1]

\* C30: with include_steam_boilers=True the steam_boiler entry of each of the
\* four modes holds the boiler power of the mode as "power" and that power times
\* the time of the mode as "energy", and the total energy is the total without
\* boilers plus the four boiler energies; with include_steam_boilers=False no
\* mode has a steam_boiler entry and the total counts no boiler energy.
C30_SteamBoilerEntries ==
    EnergyReturned =>
        IF call.args[1]
        THEN /\ \A mode \in OPERATION_MODES :
                   /\ "steam_boiler" \in DOMAIN call.out.val.items[3][mode]
                   /\ call.out.val.items[3][mode].steam_boiler.power = BoilerPower(mode)
                   /\ call.out.val.items[3][mode].steam_boiler.energy
                         = BoilerPower(mode) * ModeTime(mode)
             /\ call.out.val.items[1]
                   = TotalWithoutBoilers
                     + BoilerPower("at_berth") * ModeTime("at_berth")
                     + BoilerPower("anchored") * ModeTime("anchored")
                     + BoilerPower("manoeuvring") * ModeTime("manoeuvring")
                     + BoilerPower("at_sea") * ModeTime("at_sea")
        ELSE /\ \A mode \in OPERATION_MODES :
                   "steam_boiler" \notin DOMAIN call.out.val.items[3][mode]
             /\ call.out.val.items[1] = TotalWithoutBoilers

====
